---- MODULE Spec2Model ----
(***************************************************************************)
(* A model of the instruction compiler (agent/universal_parser.py) and of  *)
(* the action execution engine (agent/universal_executor.py).              *)
(*                                                                         *)
(* An instruction is a sequence of lower-case words.  Python's substring   *)
(* test `kw in instruction_lower` is modelled on words: a one-word keyword *)
(* occurs when it is a substring of some word, a several-word keyword when *)
(* consecutive words end with, equal and start with its parts.             *)
(* Wait seconds are kept in tenths of a second (0.5 s is 5).               *)
(***************************************************************************)
EXTENDS Integers, Sequences, FiniteSets, TLC

VARIABLES
    instruction,            \* compiler input: the instruction, as words
    use_random_data,        \* UniversalParser.use_random_data
    RANDOM_DATA_AVAILABLE,  \* module flag set by the import of agent.random_data
    seed,                   \* outcome of the random.choice / random.choices calls
    cpc,                    \* compiler position: "ready" or "parsed"
    handler,                \* which _handle_* produced the result
    parsed,                 \* result of UniversalParser._parse_simple
    pc,                     \* engine position
    parsed_actions,         \* UniversalExecutor.run argument
    screenshot_capture,     \* self.screenshot_capture is not None
    browser_open,           \* self.browser / context / page hold live handles
    step_number,            \* loop counter of run
    results,                \* the list run returns
    execution_state,        \* self.execution_state
    generated_data,         \* self.generated_data
    used_provided_data,     \* self.used_provided_data
    page,                   \* what the browser page answered to the last handler
    attempts,               \* selectors attempted by the last Type/Click/Search
    chosen,                 \* selector the last Type/Click/Search operated on
    captures,               \* is_final_result of each capture_with_analysis call of the run
    executors,              \* several UniversalExecutor instances and their runs
    capture,                \* one capture_with_analysis call: its inputs and its result
    validation,             \* one _execute_validate_page call: inputs and result
    cleanup                 \* one _cleanup call: the handles before and after

cvars == <<instruction, use_random_data, RANDOM_DATA_AVAILABLE, seed, cpc, handler, parsed>>
evars == <<pc, parsed_actions, screenshot_capture, browser_open, step_number, results,
           execution_state, generated_data, used_provided_data, page, attempts, chosen,
           captures>>
xvars == <<executors, capture, validation, cleanup>>
vars == <<cvars, evars, xvars>>

\* A field value is a sequence of words; "" is the empty sequence.
None == <<"<None>">>

Truthy(v) == v # None /\ v # <<>>

Val(w) == IF w = "" THEN <<>> ELSE <<w>>

Get(d, k, default) == IF k \in DOMAIN d THEN d[k] ELSE default

(***************************************************************************)
(* Bounds                                                                  *)
(***************************************************************************)
NumSeeds == 2

MaxActions == 2

(***************************************************************************)
(* Words and the string tests the compiler makes on them                   *)
(***************************************************************************)
\* k is a substring / prefix / suffix of the word w, for the words an
\* instruction of this model is made of and the keywords the compiler uses.
ProperSubstrings ==
    { <<"wiki", "wikipedia">>, <<"pass", "password">>, <<"user", "username">>,
      <<"name", "username">>, <<"add", "address">>, <<"search", "research">> }

ProperPrefixes ==
    { <<"wiki", "wikipedia">>, <<"pass", "password">>, <<"user", "username">>,
      <<"add", "address">> }

ProperSuffixes ==
    { <<"name", "username">>, <<"search", "research">> }

Substr(k, w) == k = w \/ <<k, w>> \in ProperSubstrings

StartsWith(w, k) == k = w \/ <<k, w>> \in ProperPrefixes

EndsWith(w, k) == k = w \/ <<k, w>> \in ProperSuffixes

\* `kw in instruction_lower`, kw given as its words
Occurs(kw, ins) ==
    IF Len(kw) = 1
    THEN \E i \in 1..Len(ins) : Substr(kw[1], ins[i])
    ELSE \E i \in 1..(Len(ins) - Len(kw) + 1) :
            /\ EndsWith(ins[i], kw[1])
            /\ StartsWith(ins[i + Len(kw) - 1], kw[Len(kw)])
            /\ \A j \in 2..(Len(kw) - 1) : ins[i + j - 1] = kw[j]

AnyOccurs(kws, ins) == \E kw \in kws : Occurs(kw, ins)

Min(S) == CHOOSE i \in S : \A j \in S : i <= j

\* words holding an e-mail address, and the address the e-mail regex finds
EmailWords == {"a@b.co"}

\* the leading run of letters of a word ([a-zA-Z]+ matched at its start)
AlphaPrefix(w) ==
    CASE w = "a@b.co" -> "a"
      [] w = "pw1" -> "pw"
      [] w = "pw1!" -> "pw"
      [] w = "!" -> ""
      [] w = "shop.io" -> "shop"
      [] OTHER -> w

\* str.rstrip('.,;:!?')
RStrip(w) ==
    CASE w = "pw1!" -> "pw1"
      [] w = "!" -> ""
      [] OTHER -> w

\* "." in word
HasDot(w) == w \in {"a@b.co", "shop.io"}

\* word.replace("www.", "").split(".")[0]
DomainOf(w) ==
    CASE w = "a@b.co" -> "a@b"
      [] w = "shop.io" -> "shop"
      [] OTHER -> w

\* position of the word a pattern `kw\s+(?:is\s+|as\s+)?(\S+)` captures when
\* kw ends at word i; 0 when the pattern does not match there
CapturePos(ins, i) ==
    IF i + 1 > Len(ins) THEN 0
    ELSE IF ins[i + 1] \in {"is", "as"} /\ i + 2 <= Len(ins) THEN i + 2
    ELSE i + 1

\* first match of `stem\s+(?:is\s+|as\s+)?(\S+)`, with .rstrip('.,;:!?')
\* applied; None when there is none
SearchNonSpace(ins, stem) ==
    LET hits == {i \in 1..Len(ins) : EndsWith(ins[i], stem) /\ CapturePos(ins, i) # 0}
    IN IF hits = {} THEN None ELSE Val(RStrip(ins[CapturePos(ins, Min(hits))]))

\* position captured by `stem\s+(?:is\s+|as\s+)?([a-zA-Z]+...)` at word i
AlphaPos(ins, i) ==
    IF i + 1 > Len(ins) THEN 0
    ELSE IF /\ ins[i + 1] \in {"is", "as"}
            /\ i + 2 <= Len(ins)
            /\ AlphaPrefix(ins[i + 2]) # ""
         THEN i + 2
    ELSE IF AlphaPrefix(ins[i + 1]) # "" THEN i + 1
    ELSE 0

(***************************************************************************)
(* _parse_simple, step 1: field extraction                                 *)
(***************************************************************************)
ExtractEmail(ins) ==
    LET p1 == {i \in 1..Len(ins) : /\ EndsWith(ins[i], "email")
                                   /\ CapturePos(ins, i) # 0
                                   /\ ins[CapturePos(ins, i)] \in EmailWords}
        p3 == {i \in 1..Len(ins) : ins[i] \in EmailWords}
    IN IF p1 # {} THEN <<ins[CapturePos(ins, Min(p1))]>>
       ELSE IF p3 # {} THEN <<ins[Min(p3)]>>
       ELSE None

ExtractPassword(ins) ==
    IF SearchNonSpace(ins, "password") # None THEN SearchNonSpace(ins, "password")
    ELSE SearchNonSpace(ins, "pass")

ExtractUsername(ins) ==
    IF SearchNonSpace(ins, "username") # None THEN SearchNonSpace(ins, "username")
    ELSE SearchNonSpace(ins, "user")

\* name\s+(?:is\s+|as\s+)?([a-zA-Z]+(?:\s+[a-zA-Z]+)?)
ExtractName(ins) ==
    LET hits == {i \in 1..Len(ins) : EndsWith(ins[i], "name") /\ AlphaPos(ins, i) # 0}
        p == AlphaPos(ins, Min(hits))
    IN IF hits = {} THEN None
       ELSE IF /\ AlphaPrefix(ins[p]) = ins[p]
               /\ p + 1 <= Len(ins)
               /\ AlphaPrefix(ins[p + 1]) # ""
            THEN <<ins[p], AlphaPrefix(ins[p + 1])>>
       ELSE <<AlphaPrefix(ins[p])>>

\* part[\s_-]?name\s+(?:is\s+|as\s+)?([a-zA-Z]+), part = "first" or "last"
ExtractPartName(ins, part) ==
    LET hits == {i \in 1..Len(ins) : /\ i > 1
                                     /\ ins[i] = "name"
                                     /\ EndsWith(ins[i - 1], part)
                                     /\ AlphaPos(ins, i) # 0}
    IN IF hits = {} THEN None
       ELSE <<AlphaPrefix(ins[AlphaPos(ins, Min(hits))])>>

FieldNames == {"email", "password", "username", "name", "first_name", "last_name"}

ExtractOne(ins, f) ==
    CASE f = "email" -> ExtractEmail(ins)
      [] f = "password" -> ExtractPassword(ins)
      [] f = "username" -> ExtractUsername(ins)
      [] f = "name" -> ExtractName(ins)
      [] f = "first_name" -> ExtractPartName(ins, "first")
      [] f = "last_name" -> ExtractPartName(ins, "last")

\* the extracted_fields dictionary
extracted_fields(ins) ==
    [f \in {g \in FieldNames : ExtractOne(ins, g) # None} |-> ExtractOne(ins, f)]

(***************************************************************************)
(* Site Profile Registry                                                   *)
(***************************************************************************)
\* keys of self.site_configs, in dictionary order
SiteKeys == <<"facebook", "twitter", "x.com", "instagram", "linkedin", "amazon",
              "flipkart", "google", "youtube", "wikipedia", "wiki", "reddit", "github">>

KnownSites == {SiteKeys[i] : i \in 1..Len(SiteKeys)}

site_configs ==
    [site \in KnownSites |->
        CASE site = "facebook" ->
               [url |-> "https://facebook.com", login_url |-> "https://facebook.com",
                signup_fields |-> <<"first_name", "last_name", "email", "password",
                                    "birth_day", "birth_month", "birth_year", "gender">>]
          [] site = "twitter" ->
               [url |-> "https://twitter.com", login_url |-> "https://twitter.com/i/flow/login",
                signup_url |-> "https://twitter.com/i/flow/signup",
                signup_fields |-> <<"name", "email", "password",
                                    "birth_month", "birth_day", "birth_year">>]
          [] site = "x.com" ->
               [url |-> "https://x.com", login_url |-> "https://x.com/i/flow/login",
                signup_url |-> "https://x.com/i/flow/signup",
                signup_fields |-> <<"name", "email", "password",
                                    "birth_month", "birth_day", "birth_year">>]
          [] site = "instagram" ->
               [url |-> "https://instagram.com",
                login_url |-> "https://instagram.com/accounts/login/",
                signup_fields |-> <<"email", "name", "username", "password">>]
          [] site = "linkedin" ->
               [url |-> "https://linkedin.com", login_url |-> "https://linkedin.com/login",
                signup_url |-> "https://linkedin.com/signup",
                signup_fields |-> <<"first_name", "last_name", "email", "password">>]
          [] site = "amazon" ->
               [url |-> "https://amazon.com", login_url |-> "https://amazon.com/ap/signin",
                search_selector |-> "#twotabsearchtextbox, input[name='field-keywords']",
                signup_fields |-> <<"name", "email", "password">>]
          [] site = "flipkart" ->
               [url |-> "https://flipkart.com",
                search_selector |-> "input[name='q'], input[title='Search for products, brands and more']",
                signup_fields |-> <<"email", "password">>]
          [] site = "google" ->
               [url |-> "https://google.com", login_url |-> "https://accounts.google.com",
                search_selector |-> "textarea[name='q'], input[name='q']",
                signup_fields |-> <<"first_name", "last_name", "email", "password">>]
          [] site = "youtube" ->
               [url |-> "https://youtube.com",
                search_selector |-> "input[name='search_query'], input[id='search']"]
          [] site = "wikipedia" ->
               [url |-> "https://wikipedia.org",
                search_selector |-> "#searchInput, input[name='search']"]
          [] site = "wiki" ->
               [url |-> "https://wikipedia.org",
                search_selector |-> "#searchInput, input[name='search']"]
          [] site = "reddit" ->
               [url |-> "https://reddit.com",
                signup_fields |-> <<"email", "username", "password">>]
          [] site = "github" ->
               [url |-> "https://github.com",
                signup_fields |-> <<"email", "username", "password">>]]

(***************************************************************************)
(* _parse_simple, steps 2 and 3: site and intent                           *)
(***************************************************************************)
_detect_site(ins) ==
    LET keyHits == {i \in 1..Len(SiteKeys) : Occurs(<<SiteKeys[i]>>, ins)}
        dotted == {i \in 1..Len(ins) : HasDot(ins[i])}
    IN IF Occurs(<<"wikipedia">>, ins) \/ Occurs(<<"wiki">>, ins) THEN "wikipedia"
       ELSE IF Occurs(<<"linkedin">>, ins) \/ Occurs(<<"linked", "in">>, ins) THEN "linkedin"
       ELSE IF keyHits # {} THEN SiteKeys[Min(keyHits)]
       ELSE IF dotted # {} THEN DomainOf(ins[Min(dotted)])
       ELSE "unknown"

SearchKeywords == {<<"search">>, <<"find">>, <<"look", "for">>}

LoginKeywords == {<<"login">>, <<"signin">>, <<"sign", "in">>, <<"log", "in">>}

SignupKeywords == {<<"signup">>, <<"register">>, <<"sign", "up">>, <<"join">>,
                   <<"create", "account">>, <<"create">>}

NavigateKeywords == {<<"go", "to">>, <<"open">>, <<"visit">>, <<"navigate">>,
                     <<"launch">>, <<"move", "to">>}

\* variant: the login keywords are tested before the search keywords
_detect_action_type_login_first(ins) ==
    IF AnyOccurs(LoginKeywords, ins) THEN "login"
    ELSE IF AnyOccurs(SearchKeywords, ins) THEN "search"
    ELSE IF AnyOccurs(SignupKeywords, ins) THEN "signup"
    ELSE IF AnyOccurs(NavigateKeywords, ins) THEN "navigate"
    ELSE "unknown"

_detect_action_type(ins) ==
    IF AnyOccurs(SearchKeywords, ins) THEN "search"
    ELSE IF AnyOccurs(LoginKeywords, ins) THEN "login"
    ELSE IF AnyOccurs(SignupKeywords, ins) THEN "signup"
    ELSE IF AnyOccurs(NavigateKeywords, ins) THEN "navigate"
    ELSE "unknown"

_get_site_url(site) ==
    IF site \in KnownSites THEN <<site_configs[site].url>>
    ELSE IF HasDot(site) THEN <<"https://", site>>
    ELSE <<"https://", site, ".com">>

(***************************************************************************)
(* _get_field_value: provided value, else random data, else None           *)
(***************************************************************************)
first_names == <<"John", "Jane", "David", "Sarah", "Michael", "Emily", "Robert",
                 "Lisa", "William", "Maria">>

last_names == <<"Smith", "Johnson", "Williams", "Brown", "Jones", "Miller", "Davis",
                "Garcia", "Rodriguez", "Wilson">>

domains == <<"gmail.com", "yahoo.com", "outlook.com", "mail.com", "protonmail.com",
             "hotmail.com">>

\* get_random_data, imported at the top of the module or, failing that,
\* defined there as f"random_{field_name}": a value for any other field
get_random_data(field_name) == <<"random", field_name>>

RandomValue(field_name, site, sd) ==
    CASE field_name = "email" ->
            IF site = "linkedin" THEN <<"linkedin_test_", "@", domains[sd]>>
            ELSE IF site = "twitter" THEN <<"twitter_test_", "@", domains[sd]>>
            ELSE <<"test", "@", domains[sd]>>
      [] field_name = "password" -> <<"Rnd12chars", domains[sd]>>
      [] field_name \in {"first_name", "name"} -> <<first_names[sd]>>
      [] field_name = "last_name" -> <<last_names[sd]>>
      [] field_name = "username" -> <<"user_", domains[sd]>>
      [] OTHER -> get_random_data(field_name)

\* variant: generates whenever random data is enabled, whatever the import did
_get_field_value_unguarded(field_name, fields, site, rnd, avail, sd) ==
    IF field_name \in DOMAIN fields /\ Truthy(fields[field_name])
    THEN fields[field_name]
    ELSE IF rnd THEN RandomValue(field_name, site, sd)
    ELSE None

_get_field_value(field_name, fields, site, rnd, avail, sd) ==
    IF field_name \in DOMAIN fields /\ Truthy(fields[field_name])
    THEN fields[field_name]
    ELSE IF rnd /\ avail THEN RandomValue(field_name, site, sd)
    ELSE None

(***************************************************************************)
(* Action constructors (the dictionaries the compiler emits)               *)
(***************************************************************************)
Navigate(url) == [action |-> "navigate", url |-> url]

Wait(tenths) == [action |-> "wait", seconds |-> tenths]

TypeAct(sel, value, ft, desc) ==
    [action |-> "type", selector |-> sel, value |-> value, field_type |-> ft,
     description |-> desc]

SelectAct(sel, value, ft, desc) ==
    [action |-> "select", selector |-> sel, value |-> value, field_type |-> ft,
     description |-> desc]

ClickAct(sel, text, desc) ==
    [action |-> "click", selector |-> sel, text |-> text, description |-> desc]

ValidatePage(kind, text, min, desc) ==
    [action |-> "validate_page", type |-> kind, text |-> text, min_indicators |-> min,
     description |-> desc]


(***************************************************************************)
(* _extract_search_query                                                   *)
(***************************************************************************)
\* words at which (?:\s+on|\s+in|\s+and|\s+then) can match
StopsQuery(w) == \E k \in {"on", "in", "and", "then"} : StartsWith(w, k)

\* end (exclusive) of the lazy group (.+?) that starts at word q, for the
\* wikipedia patterns (wiki = TRUE) or the general ones; 0 when no match
QueryEnd(ins, q, wiki) ==
    LET ends == IF wiki
                THEN {j \in (q + 1)..(Len(ins) - 1) :
                         ins[j] = "on" /\ StartsWith(ins[j + 1], "wikipedia")}
                ELSE {j \in (q + 1)..Len(ins) : StopsQuery(ins[j])} \cup {Len(ins) + 1}
    IN IF q > Len(ins) \/ ends = {} THEN 0 ELSE Min(ends)

\* match of `verb\s+(?:for\s+)?(.+?)...` whose verb ends at word i:
\* <<first word, end>> of the group, <<0, 0>> when it does not match there
QueryAt(ins, i, optFor, wiki) ==
    IF optFor /\ i + 1 <= Len(ins) /\ ins[i + 1] = "for" /\ QueryEnd(ins, i + 2, wiki) # 0
    THEN <<i + 2, QueryEnd(ins, i + 2, wiki)>>
    ELSE IF QueryEnd(ins, i + 1, wiki) # 0 THEN <<i + 1, QueryEnd(ins, i + 1, wiki)>>
    ELSE <<0, 0>>

\* re.search of one pattern: the captured words, None when it does not match
QueryPattern(ins, verb, optFor, wiki) ==
    LET hits == {i \in 1..Len(ins) : /\ IF Len(verb) = 2
                                        THEN i > 1 /\ ins[i] = verb[2] /\ EndsWith(ins[i - 1], verb[1])
                                        ELSE EndsWith(ins[i], verb[1])
                                     /\ QueryAt(ins, i, optFor, wiki)[1] # 0}
        m == QueryAt(ins, Min(hits), optFor, wiki)
    IN IF hits = {} THEN None ELSE SubSeq(ins, m[1], m[2] - 1)

RECURSIVE RemovePhrase(_, _)
\* str.replace(phrase, " ") for a phrase of several words
RemovePhrase(q, ph) ==
    LET hits == {i \in 1..(Len(q) - Len(ph) + 1) : SubSeq(q, i, i + Len(ph) - 1) = ph}
    IN IF hits = {} THEN q
       ELSE RemovePhrase(SubSeq(q, 1, Min(hits) - 1) \o SubSeq(q, Min(hits) + Len(ph), Len(q)), ph)

remove_words == KnownSites \cup {"add", "buy", "purchase", "login", "signup", "then",
                                 "wikipedia", "wiki"}

\* what str.replace(word, " ") of the one-word remove_words leaves of a word
Scrub(w) ==
    IF w \in remove_words THEN <<>>
    ELSE IF w = "address" THEN <<"ress">>
    ELSE <<w>>

RECURSIVE ScrubAll(_)
ScrubAll(q) == IF q = <<>> THEN <<>> ELSE Scrub(Head(q)) \o ScrubAll(Tail(q))

_extract_search_query(ins) ==
    LET ps == << QueryPattern(ins, <<"search">>, TRUE, TRUE),
                 QueryPattern(ins, <<"find">>, FALSE, TRUE),
                 QueryPattern(ins, <<"search">>, TRUE, FALSE),
                 QueryPattern(ins, <<"find">>, FALSE, FALSE),
                 QueryPattern(ins, <<"look", "for">>, FALSE, FALSE) >>
        hits == {i \in 1..5 : ps[i] # None}
    IN IF hits = {} THEN <<>>
       ELSE ScrubAll(RemovePhrase(RemovePhrase(ps[Min(hits)], <<"add", "to", "cart">>),
                                  <<"and", "then">>))

_get_search_selector(site) ==
    IF site \in KnownSites
    THEN Get(site_configs[site], "search_selector",
             "input[type='search'], input[name='search'], input[type='text'], textarea[name='q'], input[name='q']")
    ELSE "input[type='search'], input[name='search'], #search, .search-input, input[placeholder*='search' i], input[type='text']"

(***************************************************************************)
(* _handle_search                                                          *)
(***************************************************************************)
SearchAct(query, sel, site) ==
    [action |-> "search", query |-> query, selector |-> sel,
     description |-> <<"Search for ">> \o query \o <<" on ", site>>]

CartSteps(site) ==
    <<Wait(50)>>
    \o (IF site \in {"flipkart", "amazon"}
        THEN <<ClickAct(IF site = "flipkart"
                        THEN "a[href*='/p/'], ._1fQZEK, div[data-tkid]"
                        ELSE "a[href*='/dp/'], .s-result-item h2 a, .s-title-instructions-style h2 a",
                        "Product", <<"Click on first product">>),
               Wait(50)>>
        ELSE <<>>)
    \o <<ClickAct(CASE site = "amazon" ->
                         "#add-to-cart-button, #addToCart, input[name='submit.add-to-cart']"
                    [] site = "flipkart" ->
                         "button:has-text('ADD TO CART'), button._2KpZ6l, ._3v1-ww"
                    [] OTHER -> "button:has-text('Add to Cart'), #add-to-cart-button",
                  "Add to Cart", <<"Click Add to Cart button">>),
         Wait(30),
         ValidatePage("shopping", "Added to Cart,Cart,Added,Proceed to checkout", 1,
                      <<"Verify item added to cart">>)>>

\* variant: closes a plain search with a page validation
_handle_search_validating(ins, site) ==
    LET query == _extract_search_query(ins)
    IN <<Navigate(_get_site_url(site)), Wait(30)>>
       \o (IF query # <<>>
           THEN <<SearchAct(query, _get_search_selector(site), site), Wait(30)>>
                \o (IF Occurs(<<"add", "to", "cart">>, ins) \/ Occurs(<<"add">>, ins)
                    THEN CartSteps(site)
                    ELSE <<ValidatePage("search", "", 1, <<"Verify search results">>)>>)
           ELSE <<>>)

_handle_search(ins, site) ==
    LET query == _extract_search_query(ins)
    IN <<Navigate(_get_site_url(site)), Wait(30)>>
       \o (IF query # <<>>
           THEN <<SearchAct(query, _get_search_selector(site), site), Wait(30)>>
                \o (IF Occurs(<<"add", "to", "cart">>, ins) \/ Occurs(<<"add">>, ins)
                    THEN CartSteps(site)
                    ELSE <<>>)
           ELSE <<>>)

(***************************************************************************)
(* _handle_login and the site-specific login sequences                     *)
(***************************************************************************)
\* "@" in value
HasAt(v) == \E i \in 1..Len(v) : v[i] \in EmailWords \cup {"@"}

_handle_twitter_login(email, password) ==
    << TypeAct("input[autocomplete='username'], input[name='text'], input[type='text']",
               email, "username", <<"Enter username: ">> \o email),
       Wait(20),
       ClickAct("button[type='submit'], button:has-text('Next'), div[role='button']:has-text('Next'), span:has-text('Next')",
                "Next", <<"Click Next button">>),
       Wait(30),
       TypeAct("input[type='password'], input[name='password'], input[data-testid='LoginForm_Login_Button'] ~ input[type='password']",
               password, "password", <<"Enter password">>),
       Wait(20),
       ClickAct("button[type='submit'], button[data-testid*='Login'], button:has-text('Log in'), div[role='button']:has-text('Log in')",
                "Log in", <<"Click Login button">>),
       Wait(50),
       ValidatePage("login", "@", 1, <<"Verify login successful">>) >>

_handle_facebook_login(email, password) ==
    << TypeAct("input[name='email'], input[type='email'], input[id='email']",
               email, "email", <<"Enter email: ">> \o email),
       Wait(10),
       TypeAct("input[name='pass'], input[type='password']",
               password, "password", <<"Enter password">>),
       Wait(10),
       ClickAct("button[name='login'], button[type='submit']", "Log in",
                <<"Click Login button">>),
       Wait(50),
       ValidatePage("login", "Profile", 2, <<"Verify login successful">>) >>

_handle_linkedin_login(email, password) ==
    << TypeAct("input[name='session_key'], input[id='username'], input[type='text']",
               email, "email", <<"Enter email: ">> \o email),
       Wait(10),
       TypeAct("input[name='session_password'], input[id='password'], input[type='password']",
               password, "password", <<"Enter password">>),
       Wait(10),
       ClickAct("button[type='submit'], button:has-text('Sign in')", "Sign in",
                <<"Click Sign in button">>),
       Wait(50),
       ValidatePage("login", "Feed", 2, <<"Verify login successful">>) >>

_handle_generic_login(email, password) ==
    << IF HasAt(email)
       THEN TypeAct("input[type='email'], input[name='email'], input[placeholder*='email']",
                    email, "email", <<"Enter email: ">> \o email)
       ELSE TypeAct("input[name='username'], input[placeholder*='username']",
                    email, "username", <<"Enter username: ">> \o email),
       Wait(10),
       TypeAct("input[type='password'], input[name='password']",
               password, "password", <<"Enter password">>),
       Wait(10),
       ClickAct("button[type='submit'], button:has-text('Log in'), button:has-text('Sign in')",
                "Log in", <<"Click Login button">>),
       Wait(50),
       ValidatePage("login", "Profile", 2, <<"Verify login successful">>) >>

\* variant: the error appended to the actions built so far
_handle_login_appending(ins, site, fields, rnd, avail, sd) ==
    LET login_url == IF site \in KnownSites
                     THEN <<Get(site_configs[site], "login_url", site_configs[site].url)>>
                     ELSE _get_site_url(site)
        e1 == _get_field_value("email", fields, site, rnd, avail, sd)
        email == IF Truthy(e1) THEN e1
                 ELSE _get_field_value("username", fields, site, rnd, avail, sd)
        password == _get_field_value("password", fields, site, rnd, avail, sd)
        missing == (IF ~Truthy(email) THEN <<"email or username">> ELSE <<>>)
                   \o (IF ~Truthy(password) THEN <<"password">> ELSE <<>>)
    IN IF missing # <<>>
       THEN << Navigate(login_url), Wait(50),
               [action |-> "error",
                error |-> <<"Login failed: Missing required fields">>,
                missing_fields |-> missing,
                details |-> <<"Required">>] >>
       ELSE <<Navigate(login_url), Wait(50)>>
            \o (IF site \in {"twitter", "x.com"} THEN _handle_twitter_login(email, password)
                ELSE IF site = "facebook" THEN _handle_facebook_login(email, password)
                ELSE IF site = "linkedin" THEN _handle_linkedin_login(email, password)
                ELSE _handle_generic_login(email, password))

\* _handle_login: navigate and wait are built first; when a credential is
\* missing they are dropped and the error alone is returned
_handle_login(ins, site, fields, rnd, avail, sd) ==
    LET login_url == IF site \in KnownSites
                     THEN <<Get(site_configs[site], "login_url", site_configs[site].url)>>
                     ELSE _get_site_url(site)
        e1 == _get_field_value("email", fields, site, rnd, avail, sd)
        email == IF Truthy(e1) THEN e1
                 ELSE _get_field_value("username", fields, site, rnd, avail, sd)
        password == _get_field_value("password", fields, site, rnd, avail, sd)
        missing == (IF ~Truthy(email) THEN <<"email or username">> ELSE <<>>)
                   \o (IF ~Truthy(password) THEN <<"password">> ELSE <<>>)
    IN IF missing # <<>>
       THEN << [action |-> "error",
                error |-> <<"Login failed: Missing required fields">>,
                missing_fields |-> missing,
                details |-> <<"Required">>] >>
       ELSE <<Navigate(login_url), Wait(50)>>
            \o (IF site \in {"twitter", "x.com"} THEN _handle_twitter_login(email, password)
                ELSE IF site = "facebook" THEN _handle_facebook_login(email, password)
                ELSE IF site = "linkedin" THEN _handle_linkedin_login(email, password)
                ELSE _handle_generic_login(email, password))

(***************************************************************************)
(* _handle_signup and the site-specific signup sequences                   *)
(***************************************************************************)
Range(seq) == {seq[i] : i \in 1..Len(seq)}

_handle_twitter_signup(fields) ==
    LET name == Get(fields, "name", <<"Test", "User">>)
        email == Get(fields, "email", <<>>)
        password == Get(fields, "password", <<>>)
        birth_month == Get(fields, "birth_month", <<"January">>)
        birth_day == Get(fields, "birth_day", <<"1">>)
        birth_year == Get(fields, "birth_year", <<"1990">>)
        next == "button[type='submit'], button:has-text('Next'), div[role='button']:has-text('Next')"
    IN << TypeAct("input[name='name'], input[placeholder*='name']", name, "name",
                  <<"Enter name: ">> \o name),
          Wait(10),
          TypeAct("input[name='email'], input[type='email']", email, "email",
                  <<"Enter email: ">> \o email),
          Wait(10),
          ClickAct(next, "Next", <<"Click Next button">>),
          Wait(30),
          SelectAct("select[aria-label='Month']", birth_month, "birth_month",
                    <<"Select birth month: ">> \o birth_month),
          Wait(10),
          SelectAct("select[aria-label='Day']", birth_day, "birth_day",
                    <<"Select birth day: ">> \o birth_day),
          Wait(10),
          SelectAct("select[aria-label='Year']", birth_year, "birth_year",
                    <<"Select birth year: ">> \o birth_year),
          Wait(10),
          ClickAct(next, "Next", <<"Click Next after birthday">>),
          Wait(30),
          TypeAct("input[name='password'], input[type='password']", password, "password",
                  <<"Enter password">>),
          Wait(10),
          ClickAct(next, "Next", <<"Click Next after password">>),
          Wait(50),
          ValidatePage("signup", "Verify", 1, <<"Verify signup successful">>) >>

\* a Type action of the LinkedIn signup: it also carries is_random_data
LinkedInType(sel, value, ft, desc, fields) ==
    [action |-> "type", selector |-> sel, value |-> value, field_type |-> ft,
     description |-> desc, is_random_data |-> (ft \notin DOMAIN fields)]

_handle_linkedin_signup(fields) ==
    LET first_name == Get(fields, "first_name", <<"Test">>)
        last_name == Get(fields, "last_name", <<"User">>)
        email == Get(fields, "email", <<>>)
        password == Get(fields, "password", <<>>)
    IN << LinkedInType("input[name='first-name'], input[id='first-name']", first_name,
                       "first_name", <<"Enter first name: ">> \o first_name, fields),
          Wait(5),
          LinkedInType("input[name='last-name'], input[id='last-name']", last_name,
                       "last_name", <<"Enter last name: ">> \o last_name, fields),
          Wait(5),
          LinkedInType("input[name='email-address'], input[id='email-address']", email,
                       "email", <<"Enter email: ">> \o email, fields),
          Wait(5),
          LinkedInType("input[name='password'], input[id='password']", password,
                       "password", <<"Enter password">>, fields),
          Wait(5),
          ClickAct("button[type='submit'], button:has-text('Agree & Join'), button:has-text('Join now')",
                   "Agree & Join", <<"Click Agree & Join button">>),
          Wait(50),
          ValidatePage("signup", "Verify,Check your email,Enter confirmation code,Welcome", 1,
                       <<"Verify signup successful (even if email verification needed)">>) >>

_handle_facebook_signup(fields) ==
    LET first_name == Get(fields, "first_name", <<"Test">>)
        last_name == Get(fields, "last_name", <<"User">>)
        email == Get(fields, "email", <<>>)
        password == Get(fields, "password", <<>>)
        birth_day == Get(fields, "birth_day", <<"1">>)
        birth_month == Get(fields, "birth_month", <<"January">>)
        birth_year == Get(fields, "birth_year", <<"1990">>)
        gender == Get(fields, "gender", <<"female">>)
    IN << ClickAct("a[data-testid='open-registration-form-button']", "Create Account",
                   <<"Click Create Account button">>),
          Wait(30),
          TypeAct("input[name='firstname']", first_name, "first_name",
                  <<"Enter first name: ">> \o first_name),
          Wait(5),
          TypeAct("input[name='lastname']", last_name, "last_name",
                  <<"Enter last name: ">> \o last_name),
          Wait(5),
          TypeAct("input[name='reg_email__']", email, "email", <<"Enter email: ">> \o email),
          Wait(5),
          TypeAct("input[name='reg_email_confirmation__']", email, "email_confirm",
                  <<"Confirm email">>),
          Wait(5),
          TypeAct("input[name='reg_passwd__']", password, "password", <<"Enter password">>),
          Wait(5),
          SelectAct("select[name='birthday_day']", birth_day, "birth_day",
                    <<"Select birth day: ">> \o birth_day),
          Wait(5),
          SelectAct("select[name='birthday_month']", birth_month, "birth_month",
                    <<"Select birth month: ">> \o birth_month),
          Wait(5),
          SelectAct("select[name='birthday_year']", birth_year, "birth_year",
                    <<"Select birth year: ">> \o birth_year),
          Wait(5),
          [action |-> "click",
           selector |-> IF gender = <<"male">> THEN "input[value='2']" ELSE "input[value='1']",
           text |-> gender, field_type |-> "gender",
           description |-> <<"Select gender: ">> \o gender],
          Wait(10),
          ClickAct("button[name='websubmit']", "Sign Up", <<"Click Sign Up button">>),
          Wait(50),
          ValidatePage("signup", "Confirm", 1, <<"Verify signup successful">>) >>

_handle_generic_signup(fields) ==
    LET name == Get(fields, "name", <<"Test", "User">>)
        email == Get(fields, "email", <<>>)
        password == Get(fields, "password", <<>>)
    IN << ClickAct("a:has-text('Sign up'), a:has-text('Create New Account'), button:has-text('Sign up'), button:has-text('Join')",
                   "Sign up", <<"Click Sign up button">>),
          Wait(30) >>
       \o (IF name # <<>>
           THEN << TypeAct("input[name='name'], input[placeholder*='name']", name, "name",
                           <<"Enter name: ">> \o name),
                   Wait(5) >>
           ELSE <<>>)
       \o << TypeAct("input[type='email'], input[name='email']", email, "email",
                     <<"Enter email: ">> \o email),
             Wait(5),
             TypeAct("input[type='password'], input[name='password']", password, "password",
                     <<"Enter password">>),
             Wait(5),
             ClickAct("button[type='submit'], button:has-text('Sign up'), button:has-text('Next'), button:has-text('Join')",
                      "Sign up", <<"Click Sign up button">>),
             Wait(50),
             ValidatePage("signup", "Confirm", 1, <<"Verify signup successful">>) >>

\* variant: every site asks for e-mail and password only
required_fields_minimal(site) == <<"email", "password">>

\* required_fields: the site's signup_fields, ["email", "password"] by default;
\* for linkedin first_name and last_name are appended when absent
required_fields(site) ==
    LET base == IF site \in KnownSites
                THEN Get(site_configs[site], "signup_fields", <<"email", "password">>)
                ELSE <<"email", "password">>
        withFirst == IF site = "linkedin" /\ "first_name" \notin Range(base)
                     THEN Append(base, "first_name") ELSE base
    IN IF site = "linkedin" /\ "last_name" \notin Range(withFirst)
       THEN Append(withFirst, "last_name") ELSE withFirst

\* the generated_fields dictionary: every field the loops obtained a value for
generated_fields(site, fields, rnd, avail, sd) ==
    LET asked == Range(required_fields(site))
                 \cup (IF site = "linkedin" THEN {"first_name", "last_name"} ELSE {})
    IN [f \in {g \in asked : Truthy(_get_field_value(g, fields, site, rnd, avail, sd))}
          |-> _get_field_value(f, fields, site, rnd, avail, sd)]

RECURSIVE MissingFrom(_, _)
\* the loop collecting `missing`, in required-field order
MissingFrom(required, gen) ==
    IF required = <<>> THEN <<>>
    ELSE (IF Head(required) \notin DOMAIN gen \/ ~Truthy(gen[Head(required)])
          THEN <<Head(required)>> ELSE <<>>)
         \o MissingFrom(Tail(required), gen)

_handle_signup(ins, site, fields, rnd, avail, sd) ==
    LET gen == generated_fields(site, fields, rnd, avail, sd)
        missing == MissingFrom(required_fields(site), gen)
        signup_url == IF site \in KnownSites
                      THEN <<Get(site_configs[site], "signup_url", site_configs[site].url)>>
                      ELSE _get_site_url(site)
    IN IF missing # <<>>
       THEN << [action |-> "error",
                error |-> <<"Signup failed: Missing required fields">>,
                missing_fields |-> missing,
                suggestion |-> <<"For ", site, " signup, you need">>] >>
       ELSE <<Navigate(signup_url), Wait(30)>>
            \o (IF site \in {"twitter", "x.com"} THEN _handle_twitter_signup(gen)
                ELSE IF site = "facebook" THEN _handle_facebook_signup(gen)
                ELSE IF site = "linkedin" THEN _handle_linkedin_signup(gen)
                ELSE _handle_generic_signup(gen))

(***************************************************************************)
(* _handle_navigation and the default branch of _parse_simple              *)
(***************************************************************************)
\* words the URL regex (https?://\S+ | www\.\S+ | \S+\.(com|org|net|in)\S*) matches
UrlWords == {"http://intranet"}

_handle_navigation(ins, site) ==
    LET urls == {i \in 1..Len(ins) : ins[i] \in UrlWords}
    IN IF site # "unknown" THEN <<Navigate(_get_site_url(site)), Wait(30)>>
       ELSE IF urls # {}
            THEN << Navigate(IF ins[Min(urls)] = "http://intranet"      \* url.startswith("http")
                             THEN <<ins[Min(urls)]>>
                             ELSE <<"https://", ins[Min(urls)]>>),
                    Wait(30) >>
       ELSE << [action |-> "error",
                error |-> <<"Could not find URL in">>,
                suggestion |-> <<"Try: 'go to google.com' or 'open wikipedia.org'">>] >>

DefaultBranch(ins, site) ==
    IF site # "unknown" THEN <<Navigate(_get_site_url(site))>>
    ELSE << [action |-> "error",
             error |-> <<"Could not understand">>,
             suggestion |-> <<"Try: 'login to facebook with email test@mail.com password pass123' or 'search laptop on amazon'">>] >>

(***************************************************************************)
(* The compiler as a state machine: one instruction is parsed once         *)
(***************************************************************************)
SearchVerbs == {<<"search">>, <<"search", "for">>, <<"find">>, <<"research">>}

OtherVerbs == {<<>>, <<"login">>, <<"signup">>, <<"open">>}

ObjPhrases == {<<>>, <<"apples">>, <<"address">>}

SitePhrases == {<<>>, <<"on", "google">>, <<"on", "linkedin">>, <<"on", "github">>,
                <<"on", "twitter">>, <<"on", "facebook">>, <<"on", "wikipedia">>,
                <<"on", "shop.io">>, <<"http://intranet">>}

CartPhrases == {<<>>, <<"and", "add", "to", "cart">>, <<"and", "buy">>}

EmailPhrases == {<<>>, <<"with", "email", "a@b.co">>}

PasswordPhrases == {<<>>, <<"password", "pw1">>, <<"password", "pw1!">>, <<"password", "!">>}

UsernamePhrases == {<<>>, <<"username", "bob">>}

NamePhrases == {<<>>, <<"first", "name", "ann">>,
                <<"first", "name", "ann", "last", "name", "lee">>}

\* instructions whose words belong to several intents
MixedPhrases ==
    { <<"login", "and", "search", "apples">>, <<"signup", "and", "login">>,
      <<"open", "and", "signup">>, <<"open", "and", "find", "apples">>,
      <<"visit", "and", "join">>, <<"register", "then", "go", "to", "google">>,
      <<"hello">> }

Instructions ==
    MixedPhrases
    \cup
    {v \o o \o s \o c : v \in SearchVerbs, o \in ObjPhrases, s \in SitePhrases,
                        c \in CartPhrases}
    \cup
    {v \o s \o e \o p \o u \o n : v \in OtherVerbs, s \in SitePhrases, e \in EmailPhrases,
                                  p \in PasswordPhrases, u \in UsernamePhrases,
                                  n \in NamePhrases}

\* self.execution_state as __init__ and run() reset it
FreshState ==
    [current_site |-> "None", is_signup_flow |-> FALSE, has_provided_credentials |-> FALSE,
     has_generated_data |-> FALSE, search_query |-> None, is_search_operation |-> FALSE,
     result_page_content |-> "None", result_summary |-> "None"]

NoPage ==
    [present |-> {}, linkedin |-> FALSE, input_fillable |-> FALSE, text_clickable |-> FALSE,
     ok |-> FALSE, shot |-> FALSE, content |-> FALSE]

EngineIdle ==
    /\ pc = "Idle"
    /\ parsed_actions = <<>>
    /\ screenshot_capture = FALSE
    /\ browser_open = FALSE
    /\ step_number = 0
    /\ results = <<>>
    /\ execution_state = FreshState
    /\ generated_data = <<>>
    /\ used_provided_data = <<>>
    /\ page = NoPage
    /\ attempts = <<>>
    /\ chosen = None
    /\ captures = <<>>

InitCompile ==
    /\ instruction \in Instructions
    /\ use_random_data \in BOOLEAN
    /\ RANDOM_DATA_AVAILABLE \in BOOLEAN
    /\ seed \in 1..NumSeeds
    /\ cpc = "ready"
    /\ handler = "none"
    /\ parsed = <<>>
    /\ EngineIdle
    /\ executors = <<>>
    /\ capture = <<>>
    /\ validation = <<>>
    /\ cleanup = <<>>

Finish(h, result) ==
    /\ cpc = "ready"
    /\ cpc' = "parsed"
    /\ handler' = h
    /\ parsed' = result
    /\ UNCHANGED <<instruction, use_random_data, RANDOM_DATA_AVAILABLE, seed>>
    /\ UNCHANGED <<evars, xvars>>

\* parse: `if not instruction`
ParseEmpty ==
    /\ instruction = <<>>
    /\ Finish("empty", << [action |-> "error", error |-> <<"Empty instruction">>] >>)

ParseSearch ==
    /\ instruction # <<>>
    /\ _detect_action_type(instruction) = "search"
    /\ Finish("search", _handle_search(instruction, _detect_site(instruction)))

ParseLogin ==
    /\ instruction # <<>>
    /\ _detect_action_type(instruction) = "login"
    /\ Finish("login", _handle_login(instruction, _detect_site(instruction),
                                     extracted_fields(instruction), use_random_data,
                                     RANDOM_DATA_AVAILABLE, seed))

ParseSignup ==
    /\ instruction # <<>>
    /\ _detect_action_type(instruction) = "signup"
    /\ Finish("signup", _handle_signup(instruction, _detect_site(instruction),
                                       extracted_fields(instruction), use_random_data,
                                       RANDOM_DATA_AVAILABLE, seed))

ParseNavigate ==
    /\ instruction # <<>>
    /\ _detect_action_type(instruction) = "navigate"
    /\ Finish("navigate", _handle_navigation(instruction, _detect_site(instruction)))

ParseDefault ==
    /\ instruction # <<>>
    /\ _detect_action_type(instruction) = "unknown"
    /\ Finish("default", DefaultBranch(instruction, _detect_site(instruction)))

NextCompile ==
    \/ ParseEmpty
    \/ ParseSearch
    \/ ParseLogin
    \/ ParseSignup
    \/ ParseNavigate
    \/ ParseDefault

SpecCompile == InitCompile /\ [][NextCompile]_vars

(***************************************************************************)
(* The execution engine: Selector Catalog                                  *)
(***************************************************************************)
field_selectors ==
    [ search |-> << "#searchInput", "input[name='search']", "#twotabsearchtextbox",
                    "#search", ".search-input", "input[type='search']", "input[name='q']",
                    "textarea[name='q']", "input[name='search_query']",
                    "input[placeholder*='Search' i]", "input[title='Search']",
                    "input[type='text']", "input" >>,
      email |-> << "input[name='email-address']", "input[type='email']",
                   "input[name='email']", "input[name='session_key']",
                   "input[name='reg_email__']", "input[id='email']",
                   "input[placeholder*='email' i]", "input[autocomplete='email']" >>,
      username |-> << "input[autocomplete='username']", "input[name='text']",
                      "input[type='text']", "input[name='username']",
                      "input[name='session_username']", "input[id='username']",
                      "input[placeholder*='username' i]", "input[placeholder*='Phone' i]" >>,
      password |-> << "input[type='password']", "input[name='pass']",
                      "input[name='password']", "input[name='session_password']",
                      "input[name='reg_passwd__']", "input[placeholder*='password' i]",
                      "input[autocomplete='new-password']" >>,
      name |-> << "input[name='name']", "input[data-testid*='name']",
                  "input[placeholder*='name' i]", "input[placeholder*='Full name' i]" >>,
      first_name |-> << "input[name='first-name']", "input[id='first-name']",
                        "input[name='firstname']", "input[name='firstName']",
                        "input[placeholder*='first name' i]" >>,
      last_name |-> << "input[name='last-name']", "input[id='last-name']",
                       "input[name='lastname']", "input[name='lastName']",
                       "input[placeholder*='last name' i]" >> ]

action_selectors ==
    [ login_button |-> << "button[name='login']", "button:has-text('Log in')",
                          "button:has-text('Sign in')", "button[type='submit']",
                          "button[data-testid*='Login']",
                          "div[role='button']:has-text('Log in')",
                          "input[type='submit'][value='Sign in']" >>,
      signup_button |-> << "a[data-testid='open-registration-form-button']",
                           "a:has-text('Create New Account')", "a:has-text('Sign up')",
                           "button:has-text('Sign up')", "button:has-text('Create account')",
                           "button:has-text('Join')", "button:has-text('Agree & Join')",
                           "button:has-text('Join now')" >>,
      submit_button |-> << "button[name='websubmit']", "button[type='submit']",
                           "button:has-text('Next')", "button:has-text('Continue')",
                           "button:has-text('Submit')" >>,
      next_button |-> << "button:has-text('Next')", "div[role='button']:has-text('Next')",
                         "button[type='submit']", "span:has-text('Next')" >>,
      add_to_cart |-> << "#add-to-cart-button", "button:has-text('Add to Cart' i)",
                         "input[value='Add to Cart']", "button[id*='add-to-cart' i]",
                         "button[class*='add-to-cart' i]" >>,
      search_button |-> << "#searchButton", ".search-button",
                           "button[aria-label*='search' i]",
                           "input[type='submit'][value='Google Search']",
                           "button[type='submit']", "input[value='Search']",
                           "button:has-text('Search')",
                           "input[type='submit'][value*='Search' i]" >> ]

\* [s.strip() for s in selector.split(',')]: a selector hint is kept as its
\* pieces separated by "," items
SplitSelector(selector) == SelectSeq(selector, LAMBDA t : t # ",")

(***************************************************************************)
(* Selector resolution: each loop tries its candidates in order and        *)
(* returns at the first one whose operation completes.  `present` is the   *)
(* set of selectors on which the operation completes on the current page.  *)
(***************************************************************************)
RECURSIVE TryEach(_, _)
\* for sel in candidates: try: ... return result  except: continue
\* gives <<selectors attempted, selector that succeeded or None>>
TryEach(candidates, present) ==
    IF candidates = <<>> THEN <<<<>>, None>>
    ELSE IF Head(candidates) \in present THEN <<<<Head(candidates)>>, <<Head(candidates)>>>>
    ELSE LET rest == TryEach(Tail(candidates), present)
         IN <<<<Head(candidates)>> \o rest[1], rest[2]>>

RECURSIVE TryLoops(_, _)
\* several such loops one after the other
TryLoops(loops, present) ==
    IF loops = <<>> THEN <<<<>>, None>>
    ELSE LET first == TryEach(Head(loops), present)
         IN IF first[2] # None THEN first
            ELSE LET rest == TryLoops(Tail(loops), present)
                 IN <<first[1] \o rest[1], rest[2]>>

(***************************************************************************)
(* Engine inputs.  An action is the dictionary run() reads with            *)
(* .get(key, default); a key the dictionary lacks holds the default.       *)
(* Values typed into fields are sequences of characters.                   *)
(***************************************************************************)
PwShort == <<"p", "w", "1">>

PwLong == <<"S", "e", "c", "r", "e", "t", "P", "a", "s", "s", "w", "o", "r", "d", "1", "6">>

EmailValue == <<"a", "@", "b">>

Mask == <<"*", "*", "*", "*", "*", "*", "*", "*">>

Ellipsis == <<".", ".", ".">>

BlankAction ==
    [action |-> "unknown", url |-> "", description |-> <<>>, value |-> <<>>,
     field_type |-> "", selector |-> <<>>, text |-> "", query |-> <<>>, seconds |-> 20,
     is_random_data |-> FALSE, type |-> "generic", min_indicators |-> 1,
     error |-> "Unknown error"]

\* a value that is a JSON number instead of a string (truthy, has no slices)
NumberValue == <<"<number>">>

ActionPool ==
    { [BlankAction EXCEPT !.action = "navigate", !.url = "https://linkedin.com/signup",
                          !.description = <<"open", "signup", "page">>],
      [BlankAction EXCEPT !.action = "wait", !.seconds = 30],
      [BlankAction EXCEPT !.action = "wait", !.seconds = -10],
      [BlankAction EXCEPT !.action = "type", !.value = PwShort, !.field_type = "password",
                          !.selector = <<"input[name='password']", ",", "input[id='password']">>,
                          !.description = <<"enter", "password">>],
      [BlankAction EXCEPT !.action = "type", !.value = PwLong, !.field_type = "password",
                          !.is_random_data = TRUE,
                          !.description = <<"enter", "password">>],
      [BlankAction EXCEPT !.action = "type", !.value = EmailValue, !.field_type = "email",
                          !.selector = <<"input[name='session_key']">>,
                          !.description = <<"enter", "email">>],
      [BlankAction EXCEPT !.action = "type", !.value = NumberValue, !.field_type = "email",
                          !.description = <<"enter", "email">>],
      [BlankAction EXCEPT !.action = "click", !.text = "Agree & Join"],
      [BlankAction EXCEPT !.action = "search", !.query = <<"a", "p", "p", "l", "e", "s">>,
                          !.selector = <<"textarea[name='q']", ",", "input[name='q']">>,
                          !.description = <<"search", "for", "apples">>],
      [BlankAction EXCEPT !.action = "select", !.value = <<"1">>, !.field_type = "birth_day",
                          !.selector = <<"select[aria-label='Day']">>],
      [BlankAction EXCEPT !.action = "validate_page", !.type = "login", !.text = "Profile"],
      [BlankAction EXCEPT !.action = "info"],
      [BlankAction EXCEPT !.action = "generate_data"],
      [BlankAction EXCEPT !.action = "error", !.error = "Could not understand"] }

ActionLists == UNION {[1..n -> ActionPool] : n \in 0..MaxActions}

(***************************************************************************)
(* Step handlers.  Each gives the step result and, for selector            *)
(* resolution, the selectors attempted and the one operated on.            *)
(***************************************************************************)
Details(msg, field, shown) == [msg |-> msg, field |-> field, shown |-> shown]

StepResult(action, status, details) == [action |-> action, status |-> status, details |-> details]

Outcome(result, tried, sel) == [result |-> result, attempts |-> tried, chosen |-> sel]

_execute_navigate(a, pg) ==
    IF a.url = ""
    THEN Outcome(StepResult("navigate", "Failed", Details("No URL", "", <<>>)), <<>>, None)
    ELSE IF pg.ok
    THEN Outcome(StepResult("navigate", "Passed", Details("Navigated to", "", <<>>)), <<>>, None)
    ELSE Outcome(StepResult("navigate", "Failed", Details("Failed", "", <<>>)), <<>>, None)

\* the lists _execute_type walks, in order
TypeLoops(a, field_type, linkedin) ==
    (IF field_type = "email" /\ linkedin
     THEN << <<"input[name='email-address']", "input[id='email-address']">> >>
     ELSE <<>>)
    \o (IF a.selector # <<>> THEN <<SplitSelector(a.selector)>> ELSE <<>>)
    \o (IF field_type # "" /\ field_type \in DOMAIN field_selectors
        THEN <<field_selectors[field_type]>>
        ELSE <<>>)

\* _perform_type: the value shown in the details of a completed typing
display_value(value, field_type) == IF field_type = "password" THEN Mask ELSE value

_execute_type(a, field_type, pg) ==
    LET r == TryLoops(TypeLoops(a, field_type, pg.linkedin), pg.present)
    IN IF a.value = <<>>
       THEN Outcome(StepResult("type", "Failed", Details("No value to type", "", <<>>)),
                    <<>>, None)
       ELSE IF r[2] # None
       THEN Outcome(StepResult("type", "Passed",
                               Details("Typed", field_type,
                                       <<display_value(a.value, field_type)>>)),
                    r[1], r[2])
       ELSE IF pg.input_fillable          \* page.locator("input").all()[:5], fill(value)
       THEN Outcome(StepResult("type", "Passed", Details("Typed", field_type, <<a.value>>)),
                    r[1], None)
       ELSE Outcome(StepResult("type", "Failed",
                               Details("Input field not found", field_type, <<>>)),
                    r[1], None)

_execute_select(a, field_type, pg) ==
    IF a.value = <<>>
    THEN Outcome(StepResult("select", "Failed", Details("No value to select", "", <<>>)),
                 <<>>, None)
    ELSE IF pg.ok
    THEN Outcome(StepResult("select", "Passed", Details("Selected", field_type, <<a.value>>)),
                 <<>>, None)
    ELSE Outcome(StepResult("select", "Failed",
                            Details("Could not select", field_type, <<a.value>>)),
                 <<>>, None)

\* the five text-based strategies built from the action's text
TextStrategies(text) ==
    CASE text = "Log in" ->
            << "button:has-text('Log in')", "a:has-text('Log in')",
               "div[role='button']:has-text('Log in')", "span:has-text('Log in')",
               "input[value='Log in']" >>
      [] text = "Agree & Join" ->
            << "button:has-text('Agree & Join')", "a:has-text('Agree & Join')",
               "div[role='button']:has-text('Agree & Join')",
               "span:has-text('Agree & Join')", "input[value='Agree & Join']" >>
      [] OTHER -> <<>>

\* the type-specific selectors chosen by the keywords of text.lower()
TextCategory(text, linkedin) ==
    CASE text = "Log in" -> action_selectors.login_button
      [] text = "Agree & Join" ->
            action_selectors.signup_button
            \o (IF linkedin
                THEN <<"button:has-text('Agree & Join')", "button:has-text('Join now')">>
                ELSE <<>>)
      [] OTHER -> <<>>

\* strategies = selectors_list + strategies
ClickStrategies(a, linkedin) ==
    (IF a.selector # <<>> THEN SplitSelector(a.selector) ELSE <<>>)
    \o (IF a.text # "" THEN TextStrategies(a.text) \o TextCategory(a.text, linkedin) ELSE <<>>)

\* variant: the loop does not return at the first strategy that completes
_execute_click_exhaustive(a, pg) ==
    LET cands == ClickStrategies(a, pg.linkedin)
        hits == {i \in 1..Len(cands) : cands[i] \in pg.present}
    IN IF hits # {}
       THEN Outcome(StepResult("click", "Passed", Details("Clicked", "", <<>>)), cands,
                    <<cands[CHOOSE i \in hits : \A j \in hits : j <= i]>>)
       ELSE IF a.text # "" /\ pg.text_clickable
       THEN Outcome(StepResult("click", "Passed", Details("Clicked text", "", <<>>)),
                    cands, None)
       ELSE Outcome(StepResult("click", "Failed", Details("Element not found", "", <<>>)),
                    cands, None)

_execute_click(a, pg) ==
    LET r == TryEach(ClickStrategies(a, pg.linkedin), pg.present)
    IN IF r[2] # None
       THEN Outcome(StepResult("click", "Passed", Details("Clicked", "", <<>>)), r[1], r[2])
       ELSE IF a.text # "" /\ pg.text_clickable       \* page.click(f"text={text}")
       THEN Outcome(StepResult("click", "Passed", Details("Clicked text", "", <<>>)),
                    r[1], None)
       ELSE Outcome(StepResult("click", "Failed", Details("Element not found", "", <<>>)),
                    r[1], None)

SearchLoops(a) ==
    (IF a.selector # <<>> THEN <<SplitSelector(a.selector)>> ELSE <<>>)
    \o <<field_selectors.search>>

_execute_search(a, pg) ==
    LET r == TryLoops(SearchLoops(a), pg.present)
    IN IF a.query = <<>>
       THEN Outcome(StepResult("search", "Failed", Details("No query", "", <<>>)), <<>>, None)
       ELSE IF r[2] # None
       THEN Outcome(StepResult("search", "Passed", Details("Search completed", "", <<>>)),
                    r[1], r[2])
       ELSE Outcome(StepResult("search", "Failed", Details("Search box not found", "", <<>>)),
                    r[1], None)

\* the outcome of the page validation is decided by the page
_execute_validate_page(a, pg) ==
    IF pg.ok
    THEN Outcome(StepResult("validate_page", "Passed", Details("Validation passed", "", <<>>)),
                 <<>>, None)
    ELSE Outcome(StepResult("validate_page", "Failed", Details("Validation failed", "", <<>>)),
                 <<>>, None)

(***************************************************************************)
(* The page a handler meets.  Only what the handler of the action reads    *)
(* varies.                                                                 *)
(***************************************************************************)
RECURSIVE Flatten(_)
Flatten(loops) == IF loops = <<>> THEN <<>> ELSE Head(loops) \o Flatten(Tail(loops))

\* every selector the handler of `a` may try
Candidates(a, linkedin) ==
    CASE a.action = "type" -> Flatten(TypeLoops(a, a.field_type, linkedin))
      [] a.action = "click" -> ClickStrategies(a, linkedin)
      [] a.action = "search" -> Flatten(SearchLoops(a))
      [] OTHER -> <<>>

\* pages on which none, one, or two neighbouring candidates are operable
PresentChoices(cands) ==
    {{}} \cup {{cands[i]} : i \in 1..Len(cands)}
         \cup {{cands[i], cands[i + 1]} : i \in 1..(Len(cands) - 1)}

Resolves(a) ==
    \/ a.action = "type" /\ a.value # <<>>
    \/ a.action = "click"
    \/ a.action = "search" /\ a.query # <<>>

Pages(a) ==
    { pg \in [present : (IF Resolves(a)
                         THEN PresentChoices(Candidates(a, TRUE))
                              \cup PresentChoices(Candidates(a, FALSE))
                         ELSE {{}}),
              linkedin : (IF (a.action = "type" /\ a.field_type = "email" /\ a.value # <<>>)
                             \/ (a.action = "click" /\ a.text = "Agree & Join")
                          THEN BOOLEAN ELSE {FALSE}),
              input_fillable : (IF a.action = "type" /\ a.value # <<>>
                                THEN BOOLEAN ELSE {FALSE}),
              text_clickable : (IF a.action = "click" /\ a.text # ""
                                THEN BOOLEAN ELSE {FALSE}),
              ok : (IF (a.action = "navigate" /\ a.url # "")
                       \/ (a.action = "select" /\ a.value # <<>>)
                       \/ a.action = "validate_page"
                    THEN BOOLEAN ELSE {FALSE}),
              shot : {FALSE},
              content : (IF a.action = "search" /\ a.query # <<>>
                         THEN BOOLEAN ELSE {FALSE})] :
        \* the fallbacks are consulted only when every candidate failed
        /\ pg.present \in PresentChoices(Candidates(a, pg.linkedin))
        /\ (pg.present # {} => (~pg.input_fillable /\ ~pg.text_clickable)) }

(***************************************************************************)
(* run(): bookkeeping done before the handler is called                    *)
(***************************************************************************)
\* the site named by the keywords of url.lower()
SiteOfUrl(url, current) ==
    CASE url = "https://linkedin.com/signup" -> "linkedin"
      [] url = "https://google.com" -> "search_engine"
      [] OTHER -> current

\* self.generated_data[field_type] = value on an insertion-ordered dict
DictSet(d, k, v) ==
    IF \E i \in 1..Len(d) : d[i][1] = k
    THEN [i \in 1..Len(d) |-> IF d[i][1] = k THEN <<k, v>> ELSE d[i]]
    ELSE Append(d, <<k, v>>)

IsGeneratedType(a) == a.is_random_data \/ Occurs(<<"random">>, a.description)

UpdateState(st, a) ==
    LET s1 == IF a.action = "navigate"
              THEN [st EXCEPT !.current_site = SiteOfUrl(a.url, @)] ELSE st
        s2 == IF \/ Occurs(<<"signup">>, a.description)
                 \/ Occurs(<<"create", "account">>, a.description)
              THEN [s1 EXCEPT !.is_signup_flow = TRUE] ELSE s1
        s3 == IF a.action = "search" \/ Occurs(<<"search">>, a.description)
              THEN [s2 EXCEPT !.is_search_operation = TRUE, !.search_query = a.value]
              ELSE s2
    IN IF a.action = "type" /\ a.value # <<>>
       THEN IF IsGeneratedType(a)
            THEN [s3 EXCEPT !.has_generated_data = TRUE]
            ELSE [s3 EXCEPT !.has_provided_credentials = TRUE]
       ELSE s3

UpdateGenerated(d, a) ==
    IF a.action = "type" /\ a.value # <<>> /\ IsGeneratedType(a) /\ a.field_type # ""
    THEN DictSet(d, a.field_type, a.value) ELSE d

UpdateProvided(d, a) ==
    IF /\ a.action = "type" /\ a.value # <<>> /\ ~IsGeneratedType(a)
       /\ a.field_type \in {"email", "password"}
    THEN DictSet(d, a.field_type, a.value) ELSE d

(***************************************************************************)
(* run(): what follows the handler                                         *)
(***************************************************************************)
\* variant: every capture is named as a result page
LogCaptureAsResultPage(log, enabled, is_final_result) ==
    IF enabled THEN Append(log, TRUE) ELSE log

\* capture_with_analysis(page, report_id, description, is_final_result) is
\* called when the screenshot subsystem and the page exist; the flag decides
\* between the file prefixes "result_page" and "screenshot"
LogCapture(log, enabled, is_final_result) ==
    IF enabled THEN Append(log, is_final_result) ELSE log

\* variant: a failed validation ends the run as well
SoftKindsWithoutValidate == {"wait", "info", "generate_data"}

SoftKinds == {"wait", "validate_page", "info", "generate_data"}

\* variant: the step index counted from zero
RecordedFromZero(r, n, a) ==
    [action |-> r.action, status |-> r.status, details |-> r.details, step |-> n - 1,
     field_type |-> a.field_type]

\* step metadata (the per-step screenshot reference is not kept)
Recorded(r, n, a) ==
    [action |-> r.action, status |-> r.status, details |-> r.details, step |-> n,
     field_type |-> a.field_type]

ExecutionStopped ==
    [action |-> "execution_stopped", status |-> "Failed",
     details |-> Details("Stopped due to failed action", "", <<>>), step |-> 0,
     field_type |-> ""]

\* the part of the loop body after the handler returned `out`
AfterHandler(a, out, pg) ==
    LET n == step_number + 1
        step_result == Recorded(out.result, n, a)
        stop == step_result.status = "Failed" /\ a.action \notin SoftKinds
    IN /\ step_number' = n
       /\ results' = IF stop THEN results \o <<step_result, ExecutionStopped>>
                     ELSE Append(results, step_result)
       /\ pc' = IF stop \/ n = Len(parsed_actions) THEN "Finishing" ELSE "Running"
       /\ page' = pg
       /\ attempts' = out.attempts
       /\ chosen' = out.chosen
       /\ generated_data' = UpdateGenerated(generated_data, a)
       /\ used_provided_data' = UpdateProvided(used_provided_data, a)
       /\ captures' = LogCapture(captures, screenshot_capture, FALSE)
       /\ UNCHANGED <<parsed_actions, screenshot_capture, browser_open>>
       /\ UNCHANGED <<cvars, xvars>>

\* the `except Exception` branch of the loop body
AfterException(a, pg) ==
    LET n == step_number + 1
    IN /\ step_number' = n
       /\ results' = Append(results,
                            [action |-> a.action, status |-> "Failed",
                             details |-> Details("Error", "", <<>>), step |-> n,
                             field_type |-> a.field_type])
       /\ pc' = "Finishing"
       /\ page' = pg
       /\ attempts' = <<>>
       /\ chosen' = None
       /\ generated_data' = UpdateGenerated(generated_data, a)
       /\ used_provided_data' = UpdateProvided(used_provided_data, a)
       /\ captures' = LogCapture(captures, screenshot_capture, FALSE)
       /\ UNCHANGED <<parsed_actions, screenshot_capture, browser_open>>
       /\ UNCHANGED <<cvars, xvars>>

Plain(action, status, msg) == Outcome(StepResult(action, status, Details(msg, "", <<>>)), <<>>, None)

\* the action the loop is at
Current == parsed_actions[step_number + 1]

AtAction(kind) ==
    /\ pc = "Running"
    /\ step_number < Len(parsed_actions)
    /\ Current.action = kind

(***************************************************************************)
(* run() as a state machine                                                *)
(***************************************************************************)
Init ==
    /\ instruction = <<>>
    /\ use_random_data = FALSE
    /\ RANDOM_DATA_AVAILABLE = FALSE
    /\ seed = 1
    /\ cpc = "ready"
    /\ handler = "none"
    /\ parsed = <<>>
    /\ pc = "Idle"
    /\ parsed_actions \in ActionLists
    /\ screenshot_capture \in BOOLEAN
    /\ browser_open = FALSE
    /\ step_number = 0
    /\ results = <<>>
    /\ execution_state = FreshState
    /\ generated_data = <<>>
    /\ used_provided_data = <<>>
    /\ page = NoPage
    /\ attempts = <<>>
    /\ chosen = None
    /\ captures = <<>>
    /\ executors = <<>>
    /\ capture = <<>>
    /\ validation = <<>>
    /\ cleanup = <<>>

\* variant: the early returns placed after the per-run reset of the executor
EarlyReturnAfterReset(msg) ==
    /\ results' = << [action |-> "error", status |-> "Failed",
                      details |-> Details(msg, "", <<>>), step |-> 0,
                      field_type |-> ""] >>
    /\ pc' = "Done"
    /\ execution_state' = FreshState
    /\ generated_data' = <<>>
    /\ used_provided_data' = <<>>
    /\ UNCHANGED <<parsed_actions, screenshot_capture, browser_open, step_number,
                   page, attempts, chosen, captures>>
    /\ UNCHANGED <<cvars, xvars>>

\* the early returns of run(): one Failed error step, before any reset and
\* before the browser is launched
EarlyReturn(msg) ==
    /\ results' = << [action |-> "error", status |-> "Failed",
                      details |-> Details(msg, "", <<>>), step |-> 0,
                      field_type |-> ""] >>
    /\ pc' = "Done"
    /\ UNCHANGED <<parsed_actions, screenshot_capture, browser_open, step_number,
                   execution_state, generated_data, used_provided_data, page, attempts,
                   chosen, captures>>
    /\ UNCHANGED <<cvars, xvars>>

\* `if not parsed_actions`
ReturnNoActions ==
    /\ pc = "Idle"
    /\ parsed_actions = <<>>
    /\ EarlyReturn("No actions")

\* `if parsed_actions[0].get("action") == "error"`
ReturnCompileError ==
    /\ pc = "Idle"
    /\ parsed_actions # <<>>
    /\ parsed_actions[1].action = "error"
    /\ EarlyReturn(parsed_actions[1].error)

\* reset of the tracking variables, browser launch, context and page
Launch ==
    /\ pc = "Idle"
    /\ parsed_actions # <<>>
    /\ parsed_actions[1].action # "error"
    /\ pc' = "Running"
    /\ browser_open' = TRUE
    /\ step_number' = 0
    /\ results' = <<>>
    /\ execution_state' = FreshState
    /\ generated_data' = <<>>
    /\ used_provided_data' = <<>>
    /\ UNCHANGED <<parsed_actions, screenshot_capture, page, attempts, chosen, captures>>
    /\ UNCHANGED <<cvars, xvars>>

\* the browser is launched but new_context() or new_page() raises: the
\* exception leaves run() through the `with` block, _cleanup() is not reached
LaunchRaises ==
    /\ pc = "Idle"
    /\ parsed_actions # <<>>
    /\ parsed_actions[1].action # "error"
    /\ pc' = "Raised"
    /\ browser_open' = TRUE
    /\ step_number' = 0
    /\ results' = <<>>
    /\ execution_state' = FreshState
    /\ generated_data' = <<>>
    /\ used_provided_data' = <<>>
    /\ UNCHANGED <<parsed_actions, screenshot_capture, page, attempts, chosen, captures>>
    /\ UNCHANGED <<cvars, xvars>>

StepNavigate ==
    /\ AtAction("navigate")
    /\ \E pg \in Pages(Current) :
          /\ AfterHandler(Current, _execute_navigate(Current, pg), pg)
          /\ execution_state' = UpdateState(execution_state, Current)

StepSearch ==
    /\ AtAction("search")
    /\ \E pg \in Pages(Current) :
          LET out == _execute_search(Current, pg)
              st == UpdateState(execution_state, Current)
          IN /\ AfterHandler(Current, out, pg)
             /\ execution_state' =
                   IF out.result.status = "Passed" /\ pg.content
                   THEN [st EXCEPT !.result_page_content = "content",
                                   !.result_summary = "content"]
                   ELSE st

\* the data-usage tracking prints value[:20], which raises TypeError for a
\* value that is not a string; the statement is outside every try of run()
TrackingRaises(a) ==
    /\ a.action = "type"
    /\ a.value = NumberValue
    /\ IF IsGeneratedType(a) THEN a.field_type # "" ELSE a.field_type \in {"email", "password"}

\* the exception leaves run() through the `with` block: no step is recorded,
\* no final capture, no data summary, and _cleanup() is not reached
StepTrackingRaises ==
    /\ AtAction("type")
    /\ TrackingRaises(Current)
    /\ pc' = "Raised"
    /\ step_number' = step_number + 1
    /\ execution_state' = UpdateState(execution_state, Current)
    /\ generated_data' = UpdateGenerated(generated_data, Current)
    /\ used_provided_data' = UpdateProvided(used_provided_data, Current)
    /\ UNCHANGED <<parsed_actions, screenshot_capture, browser_open, results, page,
                   attempts, chosen, captures>>
    /\ UNCHANGED <<cvars, xvars>>

StepType ==
    /\ AtAction("type")
    /\ ~TrackingRaises(Current)
    /\ \E pg \in Pages(Current) :
          /\ AfterHandler(Current, _execute_type(Current, Current.field_type, pg), pg)
          /\ execution_state' = UpdateState(execution_state, Current)

StepSelect ==
    /\ AtAction("select")
    /\ \E pg \in Pages(Current) :
          /\ AfterHandler(Current, _execute_select(Current, Current.field_type, pg), pg)
          /\ execution_state' = UpdateState(execution_state, Current)

StepClick ==
    /\ AtAction("click")
    /\ \E pg \in Pages(Current) :
          /\ AfterHandler(Current, _execute_click(Current, pg), pg)
          /\ execution_state' = UpdateState(execution_state, Current)

\* time.sleep(seconds) raises ValueError on a negative length
StepWait ==
    /\ AtAction("wait")
    /\ \E pg \in Pages(Current) :
          /\ IF Current.seconds < 0
             THEN AfterException(Current, pg)
             ELSE AfterHandler(Current, Plain("wait", "Passed", "Waited"), pg)
          /\ execution_state' = UpdateState(execution_state, Current)

StepValidatePage ==
    /\ AtAction("validate_page")
    /\ \E pg \in Pages(Current) :
          /\ AfterHandler(Current, _execute_validate_page(Current, pg), pg)
          /\ execution_state' = UpdateState(execution_state, Current)

StepInfo ==
    /\ AtAction("info")
    /\ \E pg \in Pages(Current) :
          /\ AfterHandler(Current, Plain("info", "Passed", "Information"), pg)
          /\ execution_state' = UpdateState(execution_state, Current)

StepGenerateData ==
    /\ AtAction("generate_data")
    /\ \E pg \in Pages(Current) :
          /\ AfterHandler(Current, Plain("generate_data", "Passed", "Generated random data"), pg)
          /\ execution_state' = UpdateState(execution_state, Current)

\* the final `else` of the dispatch
StepUnknown ==
    /\ pc = "Running"
    /\ step_number < Len(parsed_actions)
    /\ Current.action \notin {"navigate", "search", "type", "select", "click", "wait",
                              "validate_page", "info", "generate_data"}
    /\ \E pg \in Pages(Current) :
          /\ AfterHandler(Current, Plain(Current.action, "Failed", "Unknown action"), pg)
          /\ execution_state' = UpdateState(execution_state, Current)

TruncLen == 15

\* f'{k}={v[:15]}...' if len(v) > 15 else f'{k}={v}'
SummaryItem(kv) ==
    <<kv[1], "=">> \o (IF Len(kv[2]) > TruncLen
                       THEN SubSeq(kv[2], 1, TruncLen) \o Ellipsis
                       ELSE kv[2])

SummaryItems(d) == [i \in 1..Len(d) |-> SummaryItem(d[i])]

\* variant: the capture step is appended whatever the capture returned
WithFinalCaptureAlways(res, captured) ==
    Append(res, [action |-> "result_page_capture", status |-> "Passed",
                 details |-> Details("Result page screenshot captured with analysis",
                                     "", <<>>),
                 step |-> Len(res) + 1, field_type |-> ""])

\* results after the final capture: one result_page_capture step when the
\* capture returned a record
WithFinalCapture(res, captured) ==
    IF captured
    THEN Append(res, [action |-> "result_page_capture", status |-> "Passed",
                      details |-> Details("Result page screenshot captured with analysis",
                                          "", <<>>),
                      step |-> Len(res) + 1, field_type |-> ""])
    ELSE res

\* variant: the data-usage summary put in front of the steps
WithDataSummaryFirst(res, provided, generated) ==
    IF generated # <<>> \/ provided # <<>>
    THEN <<[action |-> "data_summary", status |-> "Info",
            details |-> Details("Provided | Generated", "", <<>>),
            step |-> 0, field_type |-> ""]>> \o res
    ELSE res

\* results after the data-usage summary
WithDataSummary(res, provided, generated) ==
    IF generated # <<>> \/ provided # <<>>
    THEN Append(res, [action |-> "data_summary", status |-> "Info",
                      details |-> Details(IF provided = <<>> THEN "Generated"
                                          ELSE IF generated = <<>> THEN "Provided"
                                          ELSE "Provided | Generated",
                                          "", SummaryItems(provided) \o SummaryItems(generated)),
                      step |-> 0, field_type |-> ""])
    ELSE res

HandleNames == {"page", "context", "browser"}

\* the handles run() holds once the browser, the context and the page exist
AllHandles == [page |-> TRUE, context |-> TRUE, browser |-> TRUE]

\* _cleanup(): one try around the three blocks; a close() that raises leaves
\* its handle and the handles after it as they were.  `raises` are the
\* handles whose close() raises.
_cleanup(h, raises) ==
    IF h.page /\ "page" \in raises THEN h
    ELSE IF h.context /\ "context" \in raises THEN [h EXCEPT !.page = FALSE]
    ELSE IF h.browser /\ "browser" \in raises
    THEN [h EXCEPT !.page = FALSE, !.context = FALSE]
    ELSE [page |-> FALSE, context |-> FALSE, browser |-> FALSE]

\* after the loop: final capture, data-usage summary, _cleanup()
Finalize ==
    /\ pc = "Finishing"
    /\ \E co \in (IF screenshot_capture THEN BOOLEAN ELSE {FALSE}),
          sh \in (IF screenshot_capture THEN BOOLEAN ELSE {FALSE}) :
          LET capturing == browser_open /\ screenshot_capture
          IN /\ execution_state' =
                   IF capturing /\ co
                   THEN [execution_state EXCEPT !.result_page_content = "content",
                                                !.result_summary = "content"]
                   ELSE execution_state
             /\ results' = WithDataSummary(WithFinalCapture(results, capturing /\ sh),
                                           used_provided_data, generated_data)
             /\ page' = [page EXCEPT !.shot = sh, !.content = co]
             /\ captures' = LogCapture(captures, capturing, TRUE)
    /\ \E raises \in SUBSET HandleNames : browser_open' = _cleanup(AllHandles, raises).browser
    /\ pc' = "Done"
    /\ UNCHANGED <<parsed_actions, screenshot_capture, step_number, generated_data,
                   used_provided_data, attempts, chosen>>
    /\ UNCHANGED <<cvars, xvars>>

\* the lists a later call of run() on the same executor is given: the empty
\* list and the lists of one action (the error action among them)
RerunLists == {<<>>} \cup {<<a>> : a \in ActionPool}

\* run() is called again on the same executor: the attributes of the
\* executor are as the previous run left them
NewRun ==
    /\ pc = "Done"
    /\ pc' = "Idle"
    /\ parsed_actions' \in RerunLists
    /\ step_number' = 0
    /\ results' = <<>>
    /\ page' = NoPage
    /\ attempts' = <<>>
    /\ chosen' = None
    /\ captures' = <<>>
    /\ UNCHANGED <<screenshot_capture, browser_open, execution_state, generated_data,
                   used_provided_data>>
    /\ UNCHANGED <<cvars, xvars>>

Next ==
    \/ NewRun
    \/ ReturnNoActions
    \/ ReturnCompileError
    \/ Launch
    \/ LaunchRaises
    \/ StepTrackingRaises
    \/ StepNavigate
    \/ StepSearch
    \/ StepType
    \/ StepSelect
    \/ StepClick
    \/ StepWait
    \/ StepValidatePage
    \/ StepInfo
    \/ StepGenerateData
    \/ StepUnknown
    \/ Finalize

Spec == Init /\ [][Next]_vars

(***************************************************************************)
(* Properties                                                              *)
(***************************************************************************)
\* the compiler returned a single error element
IsError(p) == Len(p) = 1 /\ p[1].action = "error"

\* the instruction provides a value for field f
Provided(f) ==
    f \in DOMAIN extracted_fields(instruction) /\ Truthy(extracted_fields(instruction)[f])

CredentialMissing ==
    \/ ~Provided("email") /\ ~Provided("username")
    \/ ~Provided("password")

LoginCompiled == cpc = "parsed" /\ handler = "login"

SignupCompiled == cpc = "parsed" /\ handler = "signup"

C2_Original == (SignupCompiled /\ use_random_data) => ~IsError(parsed)

\* C3: Type, Click and Search attempt their candidates strictly in list
\* order, operate on the first candidate whose operation completes, and
\* attempt no candidate after it.
C3_FirstSuccessWins ==
    (pc \in {"Running", "Finishing", "Done"} /\ step_number >= 1
     /\ Resolves(parsed_actions[step_number])) =>
        LET a == parsed_actions[step_number]
            cands == Candidates(a, page.linkedin)
        IN \E n \in 0..Len(cands) :
              /\ attempts = SubSeq(cands, 1, n)
              /\ \A i \in 1..(n - 1) : cands[i] \notin page.present
              /\ IF chosen # None
                 THEN /\ n >= 1
                      /\ chosen = <<cands[n]>>
                      /\ cands[n] \in page.present
                      /\ \E k \in 1..Len(results) :
                            /\ results[k].step = step_number
                            /\ results[k].action = a.action
                            /\ results[k].status = "Passed"
                 ELSE /\ n = Len(cands)
                      /\ \A i \in 1..n : cands[i] \notin page.present

\* c1 absent, c2 present, c3 present: c2 is used and c3 never attempted
C3_Witness ==
    /\ pc \in {"Running", "Finishing"} /\ step_number >= 1
    /\ Resolves(parsed_actions[step_number])
    /\ LET cands == Candidates(parsed_actions[step_number], page.linkedin)
       IN /\ Len(cands) >= 3
          /\ cands[1] \notin page.present
          /\ cands[2] \in page.present
          /\ cands[3] \in page.present
          /\ chosen = <<cands[2]>>
          /\ Len(attempts) = 2

CountCaptures == Cardinality({i \in 1..Len(results) : results[i].action = "result_page_capture"})

\* C5 (as stated): every returned step list holds exactly one
\* result_page_capture step.
C5_Original == pc = "Done" => CountCaptures = 1

\* C5 (amended): a step list never holds more than one result_page_capture
\* step, and the returned list holds one exactly when the action list is not
\* empty, does not start with a compile error, the screenshot subsystem is
\* available and the final capture returned a record.
C5_FinalCapture ==
    /\ CountCaptures <= 1
    /\ pc = "Done" =>
          (CountCaptures = 1 <=>
              /\ parsed_actions # <<>>
              /\ parsed_actions[1].action # "error"
              /\ screenshot_capture
              /\ page.shot)

\* a run whose first step failed and whose final page was captured
C5_Witness ==
    /\ pc = "Done"
    /\ CountCaptures = 1
    /\ results[1].status = "Failed"
    /\ results[1].step = 1

\* v occurs in item as a contiguous run
Contains(item, v) ==
    \E j \in 0..(Len(item) - Len(v)) : SubSeq(item, j + 1, j + Len(v)) = v

\* C6 (as stated): the details of a step produced by typing a password never
\* contain the password.
C6_Original ==
    \A i \in 1..Len(results) :
        (results[i].action = "type" /\ results[i].field_type = "password"
         /\ results[i].step >= 1) =>
            LET v == parsed_actions[results[i].step].value
            IN \A k \in 1..Len(results[i].details.shown) :
                  ~Contains(results[i].details.shown[k], v)

\* C7 (as stated): the details of the data_summary step contain neither a
\* password typed during the run nor any prefix of it.
C7_Original ==
    \A i \in 1..Len(results) :
        results[i].action = "data_summary" =>
            \A j \in 1..step_number :
                LET a == parsed_actions[j]
                IN (a.action = "type" /\ a.field_type = "password" /\ a.value # <<>>) =>
                      \A k \in 1..Len(results[i].details.shown), n \in 1..Len(a.value) :
                          ~Contains(results[i].details.shown[k], SubSeq(a.value, 1, n))

SearchCompiled == cpc = "parsed" /\ handler = "search"

DeclaredSignupFields(site) ==
    IF site \in KnownSites /\ "signup_fields" \in DOMAIN site_configs[site]
    THEN site_configs[site].signup_fields
    ELSE <<"email", "password">>

C10_Original ==
    (SignupCompiled /\ _detect_site(instruction) = "linkedin" /\ ~IsError(parsed)) =>
        \A i \in 1..Len(parsed) :
            parsed[i].action = "type" =>
                (parsed[i].is_random_data <=> ~Provided(parsed[i].field_type))

\* the intents in priority order, each with its keyword set
IntentKeywords ==
    << [intent |-> "search", keywords |-> SearchKeywords],
       [intent |-> "login", keywords |-> LoginKeywords],
       [intent |-> "signup", keywords |-> SignupKeywords],
       [intent |-> "navigate", keywords |-> NavigateKeywords] >>

\* C11: the intent acted upon is the first of search, login, signup,
\* navigate one of whose keywords occurs in the instruction, and unknown
\* (the default branch) when no keyword of any of them occurs.
C11_IntentPriority ==
    (cpc = "parsed" /\ instruction # <<>>) =>
        LET hits == {i \in 1..Len(IntentKeywords) :
                        \E kw \in IntentKeywords[i].keywords : Occurs(kw, instruction)}
        IN IF hits = {} THEN handler = "default"
           ELSE /\ handler = IntentKeywords[Min(hits)].intent
                /\ \A i \in 1..(Min(hits) - 1) :
                      \A kw \in IntentKeywords[i].keywords : ~Occurs(kw, instruction)

\* an instruction with a login word before a search word compiles as a search
C11_Witness ==
    /\ cpc = "parsed"
    /\ instruction = <<"login", "and", "search", "apples">>
    /\ handler = "search"
    /\ \E i \in 1..Len(parsed) : parsed[i].action = "search"

\* C12 (as stated): every error the compiler returns carries both a
\* missing_fields list and a suggestion.
C12_Original ==
    (cpc = "parsed" /\ IsError(parsed)) =>
        /\ "missing_fields" \in DOMAIN parsed[1]
        /\ "suggestion" \in DOMAIN parsed[1]

\* C13 (as stated): a search instruction that mentions "add to cart" or "buy"
\* compiles to a list with a click after the search and a closing
\* validate_page of type shopping.
C13_Original ==
    (/\ SearchCompiled
     /\ Occurs(<<"add", "to", "cart">>, instruction) \/ Occurs(<<"buy">>, instruction)) =>
        /\ \E i, j \in 1..Len(parsed) :
              i < j /\ parsed[i].action = "search" /\ parsed[j].action = "click"
        /\ parsed[Len(parsed)].action = "validate_page"
        /\ parsed[Len(parsed)].type = "shopping"

(***************************************************************************)
(* C14: a run given the empty list or a list whose first element is the    *)
(* error action returns one Failed error step and does nothing else: the   *)
(* browser is not launched, no screenshot is captured, and ExecutionState  *)
(* and the generated / provided data maps are as they were before the call *)
(* (whatever an earlier run on the same executor left in them).            *)
(***************************************************************************)
C14_NoSideEffect ==
    [][(pc = "Idle" /\ (parsed_actions = <<>> \/ parsed_actions[1].action = "error"))
        => /\ pc' = "Done"
           /\ Len(results') = 1
           /\ results'[1].action = "error"
           /\ results'[1].status = "Failed"
           /\ captures' = <<>>
           /\ UNCHANGED <<browser_open, execution_state, generated_data,
                          used_provided_data>>]_vars

\* an early return on an executor whose earlier run left state behind
C14_Witness ==
    /\ pc = "Done"
    /\ parsed_actions # <<>>
    /\ parsed_actions[1].action = "error"
    /\ Len(results) = 1
    /\ results[1].action = "error"
    /\ ~browser_open
    /\ execution_state # FreshState
    /\ generated_data # <<>>

(***************************************************************************)
(* C15: a run that launched the browser ends in Done with page, context    *)
(* and browser closed, whatever was raised on the way.                     *)
(***************************************************************************)
C15_Original ==
    (pc \in {"Done", "Raised"}) => (pc = "Done" /\ ~browser_open)

(***************************************************************************)
(* Several executors.  execution_state, generated_data and                 *)
(* used_provided_data are attributes of the instance, created by __init__  *)
(* and replaced by run() after its early returns.  Each executor runs its  *)
(* lists one after the other; the runs of distinct executors interleave    *)
(* action by action.  The two result_* fields, written by the handlers     *)
(* from the page, are left at their reset value here.                      *)
(***************************************************************************)
CompilerIdle ==
    /\ instruction = <<>>
    /\ use_random_data = FALSE
    /\ RANDOM_DATA_AVAILABLE = FALSE
    /\ seed = 1
    /\ cpc = "ready"
    /\ handler = "none"
    /\ parsed = <<>>

ExecutorIds == {"first", "second"}

\* the actions that write the tracked state, and the error action
IsolationPool ==
    {a \in ActionPool : \/ a.action \in {"navigate", "error"}
                        \/ a.action = "type" /\ a.value \in {PwLong, EmailValue}}

IsolationLists ==
    {<<>>} \cup {<<a>> : a \in IsolationPool}
           \cup {<<a, b>> : a \in IsolationPool, b \in IsolationPool}

\* UniversalExecutor(): the attributes __init__ creates
NewExecutor ==
    [pc |-> "Idle", todo |-> <<>>, done |-> <<>>, launched |-> FALSE, reused |-> FALSE,
     execution_state |-> FreshState, generated_data |-> <<>>, used_provided_data |-> <<>>]

InitIsolation ==
    /\ CompilerIdle
    /\ EngineIdle
    /\ executors = [e \in ExecutorIds |-> NewExecutor]
    /\ capture = <<>>
    /\ validation = <<>>
    /\ cleanup = <<>>

EarlyReturns(acts) == IF acts = <<>> THEN TRUE ELSE acts[1].action = "error"

\* run() that returns before the reset: nothing of the executor is written
RunReturnsEarly(e) ==
    /\ executors[e].pc = "Idle"
    /\ \E acts \in IsolationLists :
          /\ EarlyReturns(acts)
          /\ executors' = [executors EXCEPT ![e].todo = <<>>, ![e].done = <<>>,
                                            ![e].launched = FALSE, ![e].reused = TRUE]
    /\ UNCHANGED <<cvars, evars, capture, validation, cleanup>>

\* run() up to the action loop: the tracked attributes are replaced
RunStarts(e) ==
    /\ executors[e].pc = "Idle"
    /\ \E acts \in IsolationLists :
          /\ ~EarlyReturns(acts)
          /\ executors' = [executors EXCEPT ![e] =
                              [pc |-> "Running", todo |-> acts, done |-> <<>>,
                               launched |-> TRUE, reused |-> executors[e].reused,
                               execution_state |-> FreshState, generated_data |-> <<>>,
                               used_provided_data |-> <<>>]]
    /\ UNCHANGED <<cvars, evars, capture, validation, cleanup>>

\* variant: the tracked attributes shared by all instances (class attributes)
RunStepShared(e) ==
    /\ executors[e].pc = "Running"
    /\ executors[e].todo # <<>>
    /\ LET a == Head(executors[e].todo)
       IN executors' =
            [f \in ExecutorIds |->
                [(IF f = e THEN [executors[f] EXCEPT !.todo = Tail(@), !.done = Append(@, a)]
                           ELSE executors[f])
                 EXCEPT !.execution_state = UpdateState(executors[e].execution_state, a),
                        !.generated_data = UpdateGenerated(executors[e].generated_data, a),
                        !.used_provided_data = UpdateProvided(executors[e].used_provided_data, a)]]
    /\ UNCHANGED <<cvars, evars, capture, validation, cleanup>>

\* one pass of the action loop: the tracking of the action
RunStep(e) ==
    /\ executors[e].pc = "Running"
    /\ executors[e].todo # <<>>
    /\ LET a == Head(executors[e].todo)
       IN executors' =
            [executors EXCEPT ![e].todo = Tail(@), ![e].done = Append(@, a),
                              ![e].execution_state = UpdateState(@, a),
                              ![e].generated_data = UpdateGenerated(@, a),
                              ![e].used_provided_data = UpdateProvided(@, a)]
    /\ UNCHANGED <<cvars, evars, capture, validation, cleanup>>

\* the loop ends (list exhausted, or a break) and run() returns
RunEnds(e) ==
    /\ executors[e].pc = "Running"
    /\ executors' = [executors EXCEPT ![e].pc = "Idle", ![e].reused = TRUE]
    /\ UNCHANGED <<cvars, evars, capture, validation, cleanup>>

NextIsolation ==
    \/ \E e \in ExecutorIds : RunReturnsEarly(e)
    \/ \E e \in ExecutorIds : RunStarts(e)
    \/ \E e \in ExecutorIds : RunStep(e)
    \/ \E e \in ExecutorIds : RunEnds(e)

SpecIsolation == InitIsolation /\ [][NextIsolation]_vars

\* the tracked state a run has after executing the given actions and no others
RECURSIVE Replay(_)
Replay(acts) ==
    IF acts = <<>>
    THEN [execution_state |-> FreshState, generated_data |-> <<>>, used_provided_data |-> <<>>]
    ELSE LET before == Replay(SubSeq(acts, 1, Len(acts) - 1))
             a == acts[Len(acts)]
         IN [execution_state |-> UpdateState(before.execution_state, a),
             generated_data |-> UpdateGenerated(before.generated_data, a),
             used_provided_data |-> UpdateProvided(before.used_provided_data, a)]

ResultPageCaptures == {i \in 1..Len(captures) : captures[i]}

\* the steps of the run flagged is_result_page
ResultPageSteps == {i \in 1..Len(results) : results[i].action = "result_page_capture"}

(***************************************************************************)
(* C17: in one run at most one capture is made with the result-page        *)
(* marker, it is the last capture of the run, and at most one step is      *)
(* flagged is_result_page; a flagged step exists only when that capture    *)
(* was made.                                                               *)
(***************************************************************************)
C17_OneResultPage ==
    /\ Cardinality(ResultPageCaptures) <= 1
    /\ \A i \in ResultPageCaptures : i = Len(captures)
    /\ Cardinality(ResultPageSteps) <= 1
    /\ ResultPageSteps # {} => ResultPageCaptures # {}

\* a finished run of two steps, each captured, and the result page captured
C17_Witness ==
    /\ pc = "Done"
    /\ captures = <<FALSE, FALSE, TRUE>>
    /\ Cardinality(ResultPageSteps) = 1
    /\ results[1].status = "Passed"
    /\ results[2].status = "Passed"

(***************************************************************************)
(* ScreenshotCapture.capture_with_analysis: the choice of result_summary.  *)
(* A page content is the sequence of the lengths of its sentences (the     *)
(* pieces re.split(r'[.!?]+') gives, stripped); the empty content is <<>>. *)
(* A summary is a record of its kind and its length in characters.         *)
(***************************************************************************)
MaxSentences == 4

MinSentenceLen == 20
SummaryChars == 300
MaxSummarySentences == 3

SentenceLengths == {10, 25, 150, 320}

\* thirty short sentences: longer than SummaryChars, no sentence to pick
ManyShort == [i \in 1..30 |-> 10]

Contents == {ManyShort} \cup UNION {[1..n -> SentenceLengths] : n \in 0..MaxSentences}

RECURSIVE SumLen(_)
SumLen(lens) == IF lens = <<>> THEN 0 ELSE Head(lens) + SumLen(Tail(lens))

\* len(content): every sentence and its terminator
ContentLen(content) == SumLen(content) + Len(content)

Summary(kind, length) == [kind |-> kind, length |-> length]

NoSummary == Summary("None", 0)

\* what the summarizer call gives: a text, a text of white space only, an
\* empty response, or an exception
GeminiOutcomes == {"text", "whitespace", "empty", "raises"}

_summarize_with_gemini(gemini_available, content, outcome) ==
    IF ~gemini_available \/ content = <<>>
    THEN NoSummary
    ELSE IF outcome = "text" THEN Summary("gemini", 120)
    ELSE IF outcome = "whitespace" THEN Summary("gemini", 0)
    ELSE NoSummary

\* the loop of _create_basic_summary over the sentences
RECURSIVE summary_sentences(_, _, _)
summary_sentences(sentences, picked, char_count) ==
    IF sentences = <<>>
    THEN picked
    ELSE IF Head(sentences) > MinSentenceLen
         THEN IF \/ char_count + Head(sentences) > SummaryChars
                 \/ Len(picked) + 1 >= MaxSummarySentences
              THEN Append(picked, Head(sentences))
              ELSE summary_sentences(Tail(sentences), Append(picked, Head(sentences)),
                                     char_count + Head(sentences))
         ELSE summary_sentences(Tail(sentences), picked, char_count)

_create_basic_summary(content) ==
    IF content = <<>>
    THEN Summary("Page loaded successfully", 24)
    ELSE LET picked == summary_sentences(content, <<>>, 0)
         IN IF picked # <<>>
            THEN Summary("sentences", SumLen(picked) + 2 * (Len(picked) - 1) + 1)
            ELSE IF ContentLen(content) > SummaryChars
                 THEN Summary("truncated", SummaryChars + 3)
                 ELSE Summary("content", ContentLen(content))

\* a gemini text counts when it is not the empty string
IsText(summary) == summary.kind # "None" /\ summary.length > 0

NoRecord == [returned |-> FALSE, result_summary |-> NoSummary, full_content |-> FALSE]

\* variant: no local summary when the summarizer gives nothing
capture_with_analysis_without_fallback(c) ==
    IF ~c.page_ok
    THEN NoRecord
    ELSE [returned |-> TRUE,
          result_summary |->
              IF c.is_final_result /\ c.content # <<>>
              THEN IF c.gemini_available
                   THEN _summarize_with_gemini(c.gemini_available, c.content, c.gemini)
                   ELSE _create_basic_summary(c.content)
              ELSE Summary("analysis", 13),
          full_content |-> c.is_final_result]

\* the record capture_with_analysis returns; any exception of the page
\* (screenshot, title) is caught and None returned
capture_with_analysis(c) ==
    IF ~c.page_ok
    THEN NoRecord
    ELSE [returned |-> TRUE,
          result_summary |->
              IF c.is_final_result /\ c.content # <<>>
              THEN IF c.gemini_available
                   THEN LET gemini_summary ==
                                _summarize_with_gemini(c.gemini_available, c.content, c.gemini)
                        IN IF IsText(gemini_summary) THEN gemini_summary
                           ELSE _create_basic_summary(c.content)
                   ELSE _create_basic_summary(c.content)
              ELSE Summary("analysis", 13),
          full_content |-> c.is_final_result]

InitCapture ==
    /\ CompilerIdle
    /\ EngineIdle
    /\ executors = <<>>
    /\ validation = <<>>
    /\ cleanup = <<>>
    /\ capture \in [is_final_result : BOOLEAN, gemini_available : BOOLEAN,
                     gemini : GeminiOutcomes, content : Contents, page_ok : BOOLEAN,
                     called : {FALSE}, result : {NoRecord}]

CaptureWithAnalysis ==
    /\ ~capture.called
    /\ capture' = [capture EXCEPT !.called = TRUE, !.result = capture_with_analysis(capture)]
    /\ UNCHANGED <<cvars, evars, executors, validation, cleanup>>

NextCapture == CaptureWithAnalysis

SpecCapture == InitCapture /\ [][NextCapture]_vars

\* the kinds of summary _create_basic_summary makes of a non-empty content
LocalKinds == {"sentences", "truncated", "content"}

(***************************************************************************)
(* C18: a final-result capture of a page with non-empty content that       *)
(* returns a record has a result_summary: the summarizer's text when the   *)
(* summarizer is available and returned a text, and otherwise (summarizer  *)
(* unavailable, empty reply, exception) the local summary made of the      *)
(* first sentences or of the truncated content; it is never None and       *)
(* never empty.                                                            *)
(***************************************************************************)
C18_SummaryFallback ==
    (/\ capture.called
     /\ capture.result.returned
     /\ capture.is_final_result
     /\ capture.content # <<>>)
    => LET summary == capture.result.result_summary
       IN /\ summary.kind # "None"
          /\ summary.length > 0
          /\ IF capture.gemini_available /\ capture.gemini = "text"
             THEN summary.kind = "gemini"
             ELSE /\ summary.kind \in LocalKinds
                  /\ summary.length <= ContentLen(capture.content) + 3
                  /\ summary.kind = "truncated" => summary.length = SummaryChars + 3

\* the summarizer is available and raises; the content has no sentence long
\* enough and is truncated
C18_Witness ==
    /\ capture.called
    /\ capture.result.returned
    /\ capture.is_final_result
    /\ capture.gemini_available
    /\ capture.gemini = "raises"
    /\ capture.content = ManyShort
    /\ capture.result.result_summary = Summary("truncated", SummaryChars + 3)

\* the steps recorded by the `except Exception` branch of the loop
RaisedSteps == {i \in 1..Len(results) : results[i].details.msg = "Error"}

(***************************************************************************)
(* C19: when a step handler raises, a Failed step is recorded and the run  *)
(* goes on as after a Failed result: for wait, validate_page, info and     *)
(* generate_data the remaining actions are still executed, and for the     *)
(* other kinds an execution_stopped step is appended.                      *)
(***************************************************************************)
C19_Original ==
    pc = "Done" =>
        \A i \in RaisedSteps :
            /\ results[i].status = "Failed"
            /\ IF results[i].action \in SoftKinds
               THEN step_number = Len(parsed_actions)
               ELSE \E j \in 1..Len(results) : results[j].action = "execution_stopped"

(***************************************************************************)
(* _execute_validate_page: the site shortcuts, the failure phrases and the *)
(* generic path.  The page is the set of the phrases its lower-cased       *)
(* content holds; the expected text is the list of tokens text.split(',')  *)
(* gives, each as the instruction wrote it.                                *)
(***************************************************************************)
MaxIndicators == 3

PagePhrases ==
    {"profile", "dashboard", "orders", "invalid", "already registered",
     "verification code", "article", "talk"}

\* `phrase in full_content` / re.search(phrase, full_content)
OnPage(phrase, full_content) ==
    \/ phrase \in full_content
    \/ phrase = "verification" /\ "verification code" \in full_content

\* validation_patterns["login_failure"], ["signup_failure"]; the other kinds
\* have no failure list
FailurePatterns(type) ==
    IF type = "login" THEN {"incorrect password", "wrong password", "invalid"}
    ELSE IF type = "signup" THEN {"email already exists", "invalid email", "already registered"}
    ELSE {}

linkedin_signup_success == {"check your email", "verification", "confirmation code"}

wikipedia_indicators == {"main page", "contents", "article", "talk"}

ExpectedTokens == {"Profile", "profile", "Dashboard", "Orders"}

\* str.lower() on the tokens
Lower(t) ==
    CASE t = "Profile" -> "profile"
      [] t = "Dashboard" -> "dashboard"
      [] t = "Orders" -> "orders"
      [] OTHER -> t

\* the success phrases of the validation kind (plain phrases of the catalog)
SuccessPatterns(type) ==
    IF type = "login" THEN {"profile", "logout", "settings", "account", "dashboard"}
    ELSE IF type = "signup" THEN {"check your email", "account created", "verification code"}
    ELSE {}

TokenLists == {<<>>} \cup {<<t>> : t \in ExpectedTokens}
                    \cup {<<t, u>> : t \in ExpectedTokens, u \in ExpectedTokens}

\* the indicators after list(set(...)): a catalog match contributes the
\* matched text of the lower-cased page, a token contributes itself
success_indicators(v) ==
    {ph \in SuccessPatterns(v.type) : ph \in v.page}
        \cup {v.text[i] : i \in {j \in 1..Len(v.text) : Lower(v.text[j]) \in v.page}}

ValidationStatus(v) ==
    IF Cardinality(success_indicators(v)) >= v.min_indicators THEN "Passed" ELSE "Failed"

ValidationResult(status, path, found) ==
    [status |-> status, path |-> path, indicators_found |-> found]

\* variant: the failure phrases are weighed against the success indicators
validate_page_lenient(v) ==
    IF /\ v.site = "linkedin" /\ v.is_signup_flow
       /\ \E ind \in linkedin_signup_success : OnPage(ind, v.page)
    THEN ValidationResult("Passed", "linkedin",
                          {ind \in linkedin_signup_success : OnPage(ind, v.page)})
    ELSE IF /\ v.site = "wikipedia"
            /\ Cardinality({ind \in wikipedia_indicators : OnPage(ind, v.page)}) >= 2
    THEN ValidationResult("Passed", "wikipedia",
                          {ind \in wikipedia_indicators : OnPage(ind, v.page)})
    ELSE IF /\ \E ph \in FailurePatterns(v.type) : OnPage(ph, v.page)
            /\ Cardinality(success_indicators(v)) < v.min_indicators
    THEN ValidationResult("Failed", "failure", {})
    ELSE ValidationResult(ValidationStatus(v), "generic", success_indicators(v))

\* the handler in the order of the code: LinkedIn signup shortcut, Wikipedia
\* shortcut, failure phrases of the kind, generic evaluation
validate_page(v) ==
    IF /\ v.site = "linkedin" /\ v.is_signup_flow
       /\ \E ind \in linkedin_signup_success : OnPage(ind, v.page)
    THEN ValidationResult("Passed", "linkedin",
                          {ind \in linkedin_signup_success : OnPage(ind, v.page)})
    ELSE IF /\ v.site = "wikipedia"
            /\ Cardinality({ind \in wikipedia_indicators : OnPage(ind, v.page)}) >= 2
    THEN ValidationResult("Passed", "wikipedia",
                          {ind \in wikipedia_indicators : OnPage(ind, v.page)})
    ELSE IF \E ph \in FailurePatterns(v.type) : OnPage(ph, v.page)
    THEN ValidationResult("Failed", "failure", {})
    ELSE ValidationResult(ValidationStatus(v), "generic", success_indicators(v))

InitValidate ==
    /\ CompilerIdle
    /\ EngineIdle
    /\ executors = <<>>
    /\ capture = <<>>
    /\ cleanup = <<>>
    /\ validation \in [type : {"login", "signup", "generic"}, text : TokenLists,
                        min_indicators : 1..MaxIndicators, page : SUBSET PagePhrases,
                        site : {"linkedin", "wikipedia", "other"},
                        is_signup_flow : BOOLEAN,
                        called : {FALSE}, status : {"None"}, path : {"None"},
                        indicators_found : {{}}]

ExecuteValidatePage ==
    /\ ~validation.called
    /\ LET r == validate_page(validation)
       IN validation' = [validation EXCEPT !.called = TRUE, !.status = r.status,
                                           !.path = r.path,
                                           !.indicators_found = r.indicators_found]
    /\ UNCHANGED <<cvars, evars, executors, capture, cleanup>>

NextValidate == ExecuteValidatePage

SpecValidate == InitValidate /\ [][NextValidate]_vars

\* the matched indicators with a phrase counted once whatever its case
DistinctPhrases(found) == {Lower(x) : x \in found}

(***************************************************************************)
(* C20: on the generic path the validation is Passed exactly when the      *)
(* number of distinct matched indicators reaches min_indicators, a phrase  *)
(* matched by the catalog and by an expected-text token (in whatever case) *)
(* counting once.                                                          *)
(***************************************************************************)
C20_Original ==
    (validation.called /\ validation.path = "generic") =>
        (validation.status = "Passed"
            <=> Cardinality(DistinctPhrases(validation.indicators_found))
                    >= validation.min_indicators)

\* a failure phrase of the validation kind is on the page
FailurePhraseOnPage(v) == \E ph \in FailurePatterns(v.type) : OnPage(ph, v.page)

(***************************************************************************)
(* C21: when no site shortcut is taken and a phrase of the failure list of *)
(* the validation kind is on the page, the step is Failed, whatever        *)
(* success indicators and expected-text tokens are on the page as well.    *)
(***************************************************************************)
C21_FailureFirst ==
    (/\ validation.called
     /\ validation.path \notin {"linkedin", "wikipedia"}
     /\ FailurePhraseOnPage(validation))
    => /\ validation.status = "Failed"
       /\ validation.path = "failure"

\* a login validation on a page with the failure phrase and enough success
\* indicators for the generic test
C21_Witness ==
    /\ validation.called
    /\ validation.type = "login"
    /\ validation.site = "other"
    /\ validation.page = {"invalid", "profile", "dashboard"}
    /\ validation.text = <<"Profile">>
    /\ validation.min_indicators = 1
    /\ validation.status = "Failed"

(***************************************************************************)
(* C27: a validation of kind login or signup is never Passed on a page     *)
(* that holds a failure phrase of that kind, on any path of the handler,   *)
(* the LinkedIn signup shortcut and the Wikipedia shortcut included.       *)
(***************************************************************************)
C27_Original ==
    (/\ validation.called
     /\ validation.type \in {"login", "signup"}
     /\ FailurePhraseOnPage(validation))
    => validation.status # "Passed"

\* a Type, Click or Search step has just been resolved
AfterResolution ==
    /\ pc \in {"Running", "Finishing", "Done"}
    /\ step_number >= 1
    /\ Resolves(parsed_actions[step_number])

(***************************************************************************)
(* C22: when the action carries a selector hint, the candidates of the     *)
(* hint (split on commas) are attempted, in order, before any candidate    *)
(* that does not come from the hint, for Type, Click and Search on every   *)
(* site.                                                                   *)
(***************************************************************************)
C22_Original ==
    (AfterResolution /\ parsed_actions[step_number].selector # <<>>) =>
        LET hint == SplitSelector(parsed_actions[step_number].selector)
        IN \A i \in 1..Len(attempts) : i <= Len(hint) => attempts[i] = hint[i]

(***************************************************************************)
(* C23: when every candidate of the list fails, the Type, Click or Search  *)
(* step is Failed; a step is never Passed by operating on an element that  *)
(* is not a candidate of the list.                                         *)
(***************************************************************************)
C23_Original ==
    AfterResolution =>
        LET a == parsed_actions[step_number]
            cands == Candidates(a, page.linkedin)
        IN (\A i \in 1..Len(cands) : cands[i] \notin page.present) =>
              \A k \in 1..Len(results) :
                  (results[k].step = step_number /\ results[k].action = a.action)
                      => results[k].status = "Failed"

\* the steps run() appends that do not stand for an action of the list
SyntheticKinds == {"execution_stopped", "result_page_capture", "data_summary"}

\* the steps recorded for actions, in the order of the step list
ActionSteps == SelectSeq(results, LAMBDA r : r.action \notin SyntheticKinds)

\* run() got past its early returns
Launched ==
    /\ pc \in {"Running", "Finishing", "Done", "Raised"}
    /\ parsed_actions # <<>>
    /\ parsed_actions[1].action # "error"

\* the actions handed to the step handling so far; an action whose
\* bookkeeping raised before the handler was reached is not among them
AttemptedActions == IF pc = "Raised" /\ step_number > 0 THEN step_number - 1 ELSE step_number

C25_Original ==
    (/\ Launched
     /\ pc # "Raised"
     /\ step_number >= 1
     /\ parsed_actions[step_number].action = "search")
    => /\ execution_state.is_search_operation
       /\ execution_state.search_query = parsed_actions[step_number].query

(***************************************************************************)
(* C26: the step of a wait action is Passed whatever its seconds are, and  *)
(* the run goes on with the next action of the list.                       *)
(***************************************************************************)
C26_Original ==
    \A i \in 1..Len(ActionSteps) :
        ActionSteps[i].action = "wait" =>
            /\ ActionSteps[i].status = "Passed"
            /\ (pc = "Done" /\ i < Len(parsed_actions)) => Len(ActionSteps) > i

\* the place of a step in the order of a returned list
StepRank(r) ==
    CASE r.action = "execution_stopped" -> 1
      [] r.action = "result_page_capture" -> 2
      [] r.action = "data_summary" -> 3
      [] OTHER -> 0

(***************************************************************************)
(* C28: in the step list of a run that launched the browser the action     *)
(* steps come first, in list order, then execution_stopped (directly after *)
(* the step of the failed action), then result_page_capture, then          *)
(* data_summary as the last step; each of the three occurs at most once.   *)
(***************************************************************************)
C28_StepOrder ==
    Launched =>
        /\ \A i \in 1..Len(results) : \A j \in (i + 1)..Len(results) :
              /\ StepRank(results[i]) <= StepRank(results[j])
              /\ StepRank(results[i]) = StepRank(results[j]) =>
                    /\ StepRank(results[i]) = 0
                    /\ results[i].step < results[j].step
        /\ \A j \in 1..Len(results) :
              /\ results[j].action = "execution_stopped" =>
                    /\ j > 1
                    /\ StepRank(results[j - 1]) = 0
                    /\ results[j - 1].status = "Failed"
              /\ results[j].action = "data_summary" => (j = Len(results) /\ pc = "Done")

\* a returned list holding all three: failed typing, stop marker, result
\* page, data summary
C28_Witness ==
    /\ pc = "Done"
    /\ Len(results) = 4
    /\ results[1].action = "type" /\ results[1].status = "Failed"
    /\ results[2].action = "execution_stopped"
    /\ results[3].action = "result_page_capture"
    /\ results[4].action = "data_summary"

(***************************************************************************)
(* _cleanup() on its own: any handles set, any close() raising.            *)
(***************************************************************************)
InitCleanup ==
    /\ CompilerIdle
    /\ EngineIdle
    /\ executors = <<>>
    /\ capture = <<>>
    /\ validation = <<>>
    /\ cleanup \in [before : [page : BOOLEAN, context : BOOLEAN, browser : BOOLEAN],
                     raises : SUBSET HandleNames, called : {FALSE},
                     after : {AllHandles}]

Cleanup ==
    /\ ~cleanup.called
    /\ cleanup' = [cleanup EXCEPT !.called = TRUE,
                                  !.after = _cleanup(cleanup.before, cleanup.raises)]
    /\ UNCHANGED <<cvars, evars, executors, capture, validation>>

NextCleanup == Cleanup

SpecCleanup == InitCleanup /\ [][NextCleanup]_vars

(***************************************************************************)
(* C29: after _cleanup() the executor holds no handle: page, context and   *)
(* browser are all None, also when closing one of them raised.             *)
(***************************************************************************)
C29_Original ==
    cleanup.called =>
        (~cleanup.after.page /\ ~cleanup.after.context /\ ~cleanup.after.browser)

(***************************************************************************)
(* C30: every result of the pattern-based compiler is either a list of     *)
(* exactly one error element, or a non-empty list that starts with a       *)
(* navigate action and holds no error element; no action is returned       *)
(* together with an error.                                                 *)
(***************************************************************************)
C30_WellFormed ==
    cpc = "parsed" =>
        \/ IsError(parsed)
        \/ /\ Len(parsed) >= 1
           /\ parsed[1].action = "navigate"
           /\ \A i \in 1..Len(parsed) : parsed[i].action # "error"

\* a login that gives the e-mail but no password: the navigate and wait
\* actions built before the check are dropped and the error alone returned
C30_Witness ==
    /\ LoginCompiled
    /\ Provided("email")
    /\ ~Provided("password")
    /\ Len(parsed) = 1
    /\ parsed[1].action = "error"
    /\ parsed[1].missing_fields = <<"password">>

=============================================================================
